---- MODULE Spec2Model ----
(***************************************************************************)
(* Request-interception agent of simplesalt/apps.                          *)
(*                                                                         *)
(* The repository ships the agent in several variants; the variable        *)
(* `variant` says which script is installed:                               *)
(*   "api"         public/api-proxy-sw.js   (service worker)               *)
(*   "auth"        public/auth-proxy-sw.js  (service worker)               *)
(*   "legacy"      sw.js, first copy in unnamed/part_004 (service worker)  *)
(*   "interceptor" public/sw-register.js, the wrapped window.fetch         *)
(*                                                                         *)
(* Hostnames are sequences of symbols.  A symbol is a dot or a dot-free    *)
(* chunk of characters; the chunks used here are chosen so that none is a  *)
(* substring of another, hence JavaScript's ===, endsWith and includes on  *)
(* the strings coincide with equality, suffix and contiguous-subsequence   *)
(* on the symbol sequences.                                                *)
(***************************************************************************)
EXTENDS Integers, Sequences, FiniteSets, TLC

VARIABLES
    variant,        \* which agent script runs
    routingRules,   \* the routing table (routingRules / routingConfig)
    activation,     \* position of the activate handler / initializeFetchInterceptor
    authResult,     \* interceptor only: the jwt of the authResult it closed over
    reloads,        \* RELOAD_ROUTING_CONFIG messages, one record per message
    reqs,           \* outbound requests observed by the agent, in arrival order
    mHost,          \* matcher harness: hostname under test
    mResult,        \* matcher harness: rule returned
    mPc,            \* matcher harness: "idle" | "ready" | "matched"
    calls,          \* page side: calls of reloadRoutingConfig / reloadConfig
    endpoint,       \* what the routing-config endpoint answers
    hPc,            \* function harness: "idle" | "called" | "returned"
    arg,            \* function harness: the arguments of the call
    ret,            \* function harness: the value returned
    cfAuth,         \* the CFAuth instance: cfAccessToken, tokenExpiry
    now,            \* Date.now(), in minutes
    docCookie       \* the CF_Authorization cookie of document.cookie

\* the variables only the function harnesses and the CFAuth harness change
harness == <<hPc, arg, ret, cfAuth, now, docCookie>>

vars == <<variant, routingRules, activation, authResult, reloads, reqs,
          mHost, mResult, mPc, calls, endpoint, harness>>

-----------------------------------------------------------------------------
(* Bounds *)

MaxRequests == 1
MaxReloads == 1
MaxRules == 2
MaxCalls == 2
MaxTime == 63
MaxLoads == 3
MaxChannels == 2
MaxInstalls == 2
MaxAuthCalls == 4

\* times are in minutes: the 60000 ms buffer of isTokenValid and the
\* 3600000 ms default of parseTokenExpiry
ExpiryBuffer == 1
DefaultExpiry == 60

-----------------------------------------------------------------------------
(* Hostnames *)

DOT == "."

HubApiHost == <<"api", DOT, "hub", "api", DOT, "com">>          \* api.hubapi.com
HubRootHost == <<"hub", "api", DOT, "com">>                      \* hubapi.com
EvilHubHost ==                                                  \* api.hubapi.com.evil.org
    <<"api", DOT, "hub", "api", DOT, "com", DOT, "evil", DOT, "org">>
GoogleHost == <<"api", DOT, "google", DOT, "com">>               \* api.google.com
NotionHost == <<"api", DOT, "notion", DOT, "com">>               \* api.notion.com
SaltHost == <<"simplesalt", DOT, "company">>                     \* simplesalt.company
SelfHost == <<"apps", DOT, "simplesalt", DOT, "company">>        \* apps.simplesalt.company
OtherHost == <<"example", DOT, "org">>                           \* example.org

SelfOrigin == [protocol |-> "https:", hostname |-> SelfHost]

-----------------------------------------------------------------------------
(* Routing rules and tables *)

Rule(d, a, s) == [domain |-> d, authType |-> a, secretName |-> s]

\* `undefined`, the result of Array.prototype.find when nothing matches
NoRule == Rule(<<>>, 0, "")

ApiFallbackRules ==
    << Rule(GoogleHost, 1, ""),
       Rule(HubApiHost, 2, "6nr8n2i1ve1rdnku8d1t"),
       Rule(NotionHost, 3, "fhwowggbohorrud2kj16") >>

AuthFallbackRules ==
    << Rule(HubApiHost, 2, "6nr8n2i1ve1rdnku8d1t"),
       Rule(NotionHost, 3, "fhwowggbohorrud2kj16") >>

RECURSIVE SeqsUpTo(_, _)
SeqsUpTo(S, n) ==
    IF n = 0 THEN {<<>>}
    ELSE LET shorter == SeqsUpTo(S, n - 1)
         IN  shorter \cup {Append(t, x) : t \in shorter, x \in S}

-----------------------------------------------------------------------------
(* String predicates, as String.prototype computes them *)

startsWith(s, prefix) ==
    /\ Len(prefix) <= Len(s)
    /\ SubSeq(s, 1, Len(prefix)) = prefix

endsWith(s, suffix) ==
    /\ Len(suffix) <= Len(s)
    /\ SubSeq(s, Len(s) - Len(suffix) + 1, Len(s)) = suffix

RECURSIVE includes(_, _)
includes(s, sub) ==
    IF Len(sub) > Len(s) THEN FALSE
    ELSE IF startsWith(s, sub) THEN TRUE
    ELSE includes(Tail(s), sub)

-----------------------------------------------------------------------------
(* Matchers *)

DomainMatchesExactOrSubdomain(hostname, r) ==
    \/ hostname = r.domain
    \/ endsWith(hostname, <<DOT>> \o r.domain)

\* api-proxy-sw.js, auth-proxy-sw.js and sw.js: exact, subdomain or substring
DomainMatches(hostname, r) ==
    \/ hostname = r.domain
    \/ endsWith(hostname, <<DOT>> \o r.domain)
    \/ includes(hostname, r.domain)

\* sw-register.js: only authType 2/3 rules, exact or subdomain
InterceptorRuleMatches(hostname, r) ==
    IF r.authType = 2 \/ r.authType = 3
    THEN \/ hostname = r.domain
         \/ endsWith(hostname, <<DOT>> \o r.domain)
    ELSE FALSE

RulePredicate(v, hostname, r) ==
    IF v = "interceptor" THEN InterceptorRuleMatches(hostname, r)
    ELSE DomainMatches(hostname, r)

findOrFirst(rules, hostname, v) ==
    LET hits == {i \in DOMAIN rules : RulePredicate(v, hostname, rules[i])}
    IN  IF hits # {} THEN rules[CHOOSE i \in hits : \A j \in hits : i <= j]
        ELSE IF rules # <<>> THEN Head(rules)
        ELSE NoRule

RECURSIVE findLast(_, _, _)
findLast(rules, hostname, v) ==
    IF rules = <<>> THEN NoRule
    ELSE IF RulePredicate(v, hostname, rules[Len(rules)]) THEN rules[Len(rules)]
    ELSE findLast(SubSeq(rules, 1, Len(rules) - 1), hostname, v)

\* Array.prototype.find: the first element satisfying the predicate
RECURSIVE find(_, _, _)
find(rules, hostname, v) ==
    IF rules = <<>> THEN NoRule
    ELSE IF RulePredicate(v, hostname, Head(rules)) THEN Head(rules)
    ELSE find(Tail(rules), hostname, v)

shouldRedirectAny(rule) == rule # NoRule

\* rule && (rule.authType === 2 || rule.authType === 3)
shouldRedirect(rule) ==
    rule # NoRule /\ (rule.authType = 2 \/ rule.authType = 3)

-----------------------------------------------------------------------------
(* URLs, headers and requests *)

Url(h, p, n) == [href |-> h, protocol |-> p, hostname |-> n]

UrlHub == Url("https://api.hubapi.com/y", "https:", HubApiHost)
UrlHubRoot == Url("https://hubapi.com/v1", "https:", HubRootHost)
UrlEvil == Url("https://api.hubapi.com.evil.org/", "https:", EvilHubHost)
UrlSelf == Url("https://apps.simplesalt.company/page", "https:", SelfHost)
UrlExt == Url("chrome-extension://api.hubapi.com/y", "chrome-extension:", HubApiHost)

\* url.protocol.startsWith('http')
IsHttpFamily(url) == url.protocol \in {"http:", "https:"}

\* url.origin; a non-HTTP scheme has the opaque origin
origin(url) ==
    IF IsHttpFamily(url) THEN [protocol |-> url.protocol, hostname |-> url.hostname]
    ELSE [protocol |-> "null", hostname |-> <<>>]

\* Header names, lower-cased as the Headers object keeps them
HeaderNames ==
    {"content-type", "origin", "referer", "host",
     "x-original-url", "x-original-host", "x-auth-type", "x-secret-name",
     "x-cf-access-token",
     "x-forwarded-for", "cf-access-jwt-assertion"}

Absent == "<absent>"

EmptyHeaders == [n \in HeaderNames |-> Absent]

\* Headers.prototype.set
HeaderSet(h, n, v) == [h EXCEPT ![n] = v]

\* lowerKey.startsWith('cf-') and lowerKey.startsWith('x-') on HeaderNames
StartsWithCf(n) == n \in {"cf-access-jwt-assertion"}
StartsWithX(n) ==
    n \in {"x-original-url", "x-original-host", "x-auth-type", "x-secret-name",
           "x-cf-access-token", "x-forwarded-for"}

PlainHeaders == HeaderSet(EmptyHeaders, "content-type", "application/json")

\* a caller that tries to supply the control headers itself
SpoofHeaders ==
    [PlainHeaders EXCEPT !["x-secret-name"] = "EVIL",
                         !["x-auth-type"] = "1",
                         !["x-cf-access-token"] = "FORGED",
                         !["origin"] = "https://evil.example"]

Request(u, m, h, b) == [url |-> u, method |-> m, headers |-> h, body |-> b]

Requests ==
    { Request(UrlHub, "GET", PlainHeaders, ""),
      Request(UrlHubRoot, "POST", SpoofHeaders, "payload"),
      Request(UrlEvil, "GET", PlainHeaders, ""),
      Request(UrlSelf, "GET", PlainHeaders, ""),
      Request(UrlExt, "GET", PlainHeaders, "") }

\* rule.authType.toString()
AuthTypeString(a) == CASE a = 1 -> "1" [] a = 2 -> "2" [] a = 3 -> "3" [] OTHER -> "0"

-----------------------------------------------------------------------------
(* What the routing-config endpoint can answer *)

HubTable == << Rule(HubApiHost, 1, ""), Rule(HubRootHost, 2, "S1") >>
SaltTable == << Rule(SaltHost, 3, "") >>

UpstreamTables == {HubTable, SaltTable, << >>}

\* net: did the fetch settle with a response; ok: response.ok;
\* json: does response.json() parse; rules: the parsed array
ConfigOutcome(n, o, j, t) == [net |-> n, ok |-> o, json |-> j, rules |-> t]

NetworkError == ConfigOutcome(FALSE, FALSE, FALSE, <<>>)

\* a network error, a 200 with a malformed body, a 200 with each upstream
\* table, and a 500 whose body is a JSON array
ConfigOutcomes ==
    {NetworkError}
    \cup {ConfigOutcome(TRUE, TRUE, FALSE, <<>>)}
    \cup {ConfigOutcome(TRUE, TRUE, TRUE, t) : t \in UpstreamTables}
    \cup {ConfigOutcome(TRUE, FALSE, TRUE, HubTable)}

\* the fetch "fails": network error, non-2xx status or malformed JSON
ConfigFetchFailed(out) == ~out.net \/ ~out.ok \/ ~out.json

\* the endpoint's state: `fixed` says its answer does not change during the
\* behaviour, `out` is that answer
Endpoint(f, out) == [fixed |-> f, out |-> out]

\* an endpoint (and network) that may answer each fetch differently
AnyAnswer == Endpoint(FALSE, NetworkError)

\* can a fetch of the routing config settle with `out`
EndpointAnswers(out) == ~endpoint.fixed \/ endpoint.out = out

-----------------------------------------------------------------------------
(* Records kept per request and per reload message *)

Variants == {"api", "auth", "legacy", "interceptor"}
ServiceWorkers == {"api", "auth", "legacy"}

Fwd(t, m, h, b, c) ==
    [target |-> t, method |-> m, headers |-> h, body |-> b, credentials |-> c]

\* no request was issued by the agent
NoFwd == Fwd("none", "", EmptyHeaders, "", "")

Resp(st, src) == [status |-> st, source |-> src]
NoResp == Resp(0, "none")

\* the respondWith promise rejected: the caller gets no Response
Rejected == Resp(0, "rejected")

Reply(s, n, e) == [success |-> s, rules |-> n, error |-> e]
NoReply == Reply(FALSE, -1, "<none>")

\* page scripts that expose a reload call: window.swUtils (sw-register.js,
\* registers api-proxy-sw.js) and window.authProxy (auth-proxy-loader,
\* registers auth-proxy-sw.js)
Callers == {"swUtils", "authProxy"}

\* one invocation of resolve, reject or return by the page-side call:
\* data is the reply handed over (NoReply when none), text the error message
\* or the boolean returned
Settlement(k, d, t) == [kind |-> k, data |-> d, text |-> t]

\* a page-side call: posted counts the messages sent to the controller, inbox
\* holds the replies that arrived on port1, handled counts those the
\* onmessage handler has processed, settled the settlements in order
Call(c, pc, posted, settled) ==
    [caller |-> c, pc |-> pc, posted |-> posted, inbox |-> <<>>,
     handled |-> 0, settled |-> settled]

\* credentials the page and the cookie store can hand out ("" is no token)
PageTokens == {"", "JWT"}
CookieValues == {"", "CK"}

ProxyOutcome(k, st, loc) == [kind |-> k, status |-> st, location |-> loc]

\* the proxy fetch has not settled
NoOutcome == ProxyOutcome("none", 0, FALSE)

\* "TypeErrorFetch": the fetch rejects with a TypeError whose message contains
\*    'fetch', the transport failure ("Failed to fetch");
\* "OtherError": any exception that is not a transport failure
ProxyOutcomes ==
    { ProxyOutcome("response", 200, FALSE),
      ProxyOutcome("response", 500, FALSE),
      ProxyOutcome("response", 401, FALSE),
      ProxyOutcome("response", 403, TRUE),
      ProxyOutcome("TypeErrorFetch", 0, FALSE),
      ProxyOutcome("OtherError", 0, FALSE) }

\* the fetch to the proxy failed at the transport level
IsTransportError(out) == out.kind = "TypeErrorFetch"

-----------------------------------------------------------------------------
(* Config loader *)

loadFallbackConfig(v) ==
    IF v = "api" THEN ApiFallbackRules ELSE AuthFallbackRules

\* the table loadRoutingConfig leaves in routingRules (api-proxy-sw.js,
\* auth-proxy-sw.js)
loadRoutingConfig(v, out) ==
    IF out.net /\ out.ok /\ out.json THEN out.rules
    ELSE loadFallbackConfig(v)

\* the table the startup load produces; `old` is the table before it
LoadedTable(v, old, out) ==
    CASE v \in {"api", "auth"} -> loadRoutingConfig(v, out)
      [] v = "legacy" -> IF out.net /\ out.ok /\ out.json THEN out.rules ELSE old
      [] OTHER -> IF out.net /\ out.json THEN out.rules ELSE old

ReloadedTableDelta(v, old, out) ==
    IF out.net /\ out.json
    THEN SelectSeq(out.rules, LAMBDA r : \A n \in DOMAIN old : old[n] # r)
    ELSE old

\* the table a RELOAD_ROUTING_CONFIG produces
ReloadedTable(v, old, out) ==
    CASE v = "api" -> IF out.net /\ out.json THEN out.rules ELSE old
      [] v = "auth" -> loadRoutingConfig(v, out)
      [] OTHER -> IF out.net /\ out.ok /\ out.json THEN out.rules ELSE old

\* the message posted on event.ports[0]
ReloadReply(v, new, out) ==
    CASE v = "api" ->
            IF out.net /\ out.json THEN Reply(TRUE, Len(new), "")
            ELSE Reply(FALSE, -1, "error.message")
      [] v = "auth" -> Reply(TRUE, Len(new), "")
      [] OTHER ->
            IF out.net /\ out.ok /\ out.json THEN Reply(TRUE, -1, "")
            ELSE Reply(FALSE, -1, "error.message")

InstallMerged(old, new) == old \o new

\* `routingRules = rules`: the reference is swapped in one assignment
Install(old, new) == new

\* new CFAuth(): no token, no expiry
NoAuth == [cfAccessToken |-> "", tokenExpiry |-> 0]

\* no function is under check and no CFAuth call has been made
HarnessIdle ==
    /\ hPc = "idle"
    /\ arg = <<>>
    /\ ret = <<>>
    /\ cfAuth = NoAuth
    /\ now = 0
    /\ docCookie = ""


InitialRulesPreloaded == ApiFallbackRules

\* `let routingRules = []` / `let routingConfig = []` at script evaluation
InitialRules == <<>>

Init ==
    /\ variant \in Variants
    /\ routingRules = InitialRules
    /\ activation = [pc |-> "Uninitialized", failed |-> FALSE]
    /\ authResult \in (IF variant = "interceptor" THEN {"", "JWT"} ELSE {""})
    /\ reloads = <<>>
    /\ reqs = <<>>
    /\ mHost = <<>>
    /\ mResult = NoRule
    /\ mPc = "idle"
    /\ calls = <<>>
    /\ endpoint = AnyAnswer
    /\ HarnessIdle

\* the activate event (service workers) / the call of
\* initializeFetchInterceptor: the config fetch is issued
Activate ==
    /\ activation.pc = "Uninitialized"
    /\ activation' = [activation EXCEPT !.pc = "Loading"]
    /\ UNCHANGED <<variant, routingRules, authResult, reloads, reqs,
                   mHost, mResult, mPc,
                   calls, endpoint, harness>>

\* the config fetch of the startup load settles
LoadDone(out) ==
    /\ activation.pc = "Loading"
    /\ EndpointAnswers(out)
    /\ LET new == LoadedTable(variant, routingRules, out)
       IN  routingRules' = Install(routingRules, new)
    /\ activation' =
          [pc |-> IF variant = "interceptor" /\ ~(out.net /\ out.json)
                  THEN "Failed" ELSE "Done",
           failed |-> ConfigFetchFailed(out)]
    /\ UNCHANGED <<variant, authResult, reloads, reqs, mHost, mResult, mPc,
                   calls, endpoint, harness>>

\* the message handler on RELOAD_ROUTING_CONFIG: the fetch is issued; `port`
\* is event.ports[0], which the handler's closures keep (0: a sender that is
\* not modelled)
OnReloadMessage(port) ==
    reloads' = Append(reloads,
                  [pc |-> "fetching", failed |-> FALSE, reply |-> NoReply,
                   port |-> port])

ReplyPortLatest(k) == Len(calls)

\* event.ports[0] of the message that reload k handles
ReplyPort(k) == reloads[k].port

\* port.postMessage(reply): the reply arrives in the inbox of the call that
\* holds the other end of the channel
PostMessage(port, reply) ==
    IF port \in DOMAIN calls
    THEN [calls EXCEPT ![port].inbox = Append(@, reply)]
    ELSE calls

\* the message event with type RELOAD_ROUTING_CONFIG, from an unmodelled sender
ReloadMessage ==
    /\ variant \in ServiceWorkers
    /\ Len(reloads) < MaxReloads
    /\ OnReloadMessage(0)
    /\ UNCHANGED <<variant, routingRules, activation, authResult, reqs,
                   mHost, mResult, mPc,
                   calls, endpoint, harness>>

\* the fetch of reload k settles; the table is installed and the reply posted
ReloadDone(k, out) ==
    /\ k \in DOMAIN reloads
    /\ reloads[k].pc = "fetching"
    /\ EndpointAnswers(out)
    /\ LET new == ReloadedTable(variant, routingRules, out)
       IN  /\ routingRules' = Install(routingRules, new)
           /\ reloads' = [reloads EXCEPT ![k] =
                 [pc |-> "replied", failed |-> ConfigFetchFailed(out),
                  reply |-> ReloadReply(variant, new, out),
                  port |-> reloads[k].port]]
           /\ calls' = PostMessage(ReplyPort(k), ReloadReply(variant, new, out))
    /\ UNCHANGED <<variant, activation, authResult, reqs, mHost, mResult, mPc,
                   endpoint, harness>>

-----------------------------------------------------------------------------
(* Request transformer *)

\* the "copy safe headers" loop of api-proxy-sw.js and auth-proxy-sw.js
SafeHeaders(h) ==
    [n \in HeaderNames |->
        IF /\ ~StartsWithCf(n)
           /\ ~StartsWithX(n)
           /\ n # "host"
           /\ n # "origin"
           /\ n # "referer"
        THEN h[n] ELSE Absent]

\* new Headers(init.headers) followed by the deletes of sw-register.js
\* (the sec-fetch-* names are not in HeaderNames)
InterceptorHeaders(h) ==
    [n \in HeaderNames |-> IF n \in {"origin", "referer"} THEN Absent ELSE h[n]]

ControlHeadersNoSecret(h, url, rule) ==
    HeaderSet(HeaderSet(h, "x-original-url", url.href),
              "x-auth-type", AuthTypeString(rule.authType))

\* X-Original-URL, X-Auth-Type and X-Secret-Name as the service workers set them
ControlHeaders(h, url, rule) ==
    LET h1 == HeaderSet(h, "x-original-url", url.href)
        h2 == HeaderSet(h1, "x-auth-type", AuthTypeString(rule.authType))
    IN  IF rule.secretName # "" THEN HeaderSet(h2, "x-secret-name", rule.secretName)
        ELSE h2

ProxyHeadersKeepCaller(v, q, rule, token) ==
    LET h1 == ControlHeaders(q.headers, q.url, rule)
    IN  IF token # "" THEN HeaderSet(h1, "x-cf-access-token", token) ELSE h1

\* the header set sent to the proxy, per variant; token "" is `null`
ProxyHeaders(v, q, rule, token) ==
    CASE v = "api" ->
            LET h1 == ControlHeaders(SafeHeaders(q.headers), q.url, rule)
                h2 == IF token # "" THEN HeaderSet(h1, "x-cf-access-token", token) ELSE h1
                h3 == HeaderSet(h2, "origin", "https://apps.simplesalt.company")
            IN  HeaderSet(h3, "x-forwarded-for", "apps.simplesalt.company")
      [] v = "auth" ->
            LET h1 == ControlHeaders(SafeHeaders(q.headers), q.url, rule)
            IN  HeaderSet(h1, "origin", "https://apps.simplesalt.company")
      [] v = "legacy" ->
            LET h1 == ControlHeaders(q.headers, q.url, rule)
            IN  IF token # "" THEN HeaderSet(h1, "cf-access-jwt-assertion", token) ELSE h1
      [] OTHER ->
            LET h1 == HeaderSet(InterceptorHeaders(q.headers), "x-original-url", q.url.href)
                h2 == HeaderSet(h1, "x-auth-type", AuthTypeString(rule.authType))
                h3 == HeaderSet(h2, "x-secret-name", rule.secretName)
            IN  IF token # "" THEN HeaderSet(h3, "cf-access-jwt-assertion", token) ELSE h3

\* credentials mode of the fetch to the proxy
ProxyCredentials(v) == IF v \in {"auth", "interceptor"} THEN "include" ELSE "omit"

\* body handed to the proxy fetch: none for GET and HEAD
ProxyBody(q) == IF q.method # "GET" /\ q.method # "HEAD" THEN q.body ELSE ""

RuleForForwardStale(q) == find(routingRules, q.url.hostname, variant)

\* the `rule` constant the respondWith closure captured at match time
RuleForForward(q) == q.rule

\* the request issued to the proxy endpoint for request record q
ProxyRequest(v, q, token) ==
    Fwd("proxy", q.method, ProxyHeaders(v, q, RuleForForward(q), token),
        ProxyBody(q), ProxyCredentials(v))

-----------------------------------------------------------------------------
(* Interception agent: the fetch handler *)

ReqRecord(q, pc, wait, rule, fwd) ==
    [url |-> q.url, method |-> q.method, headers |-> q.headers, body |-> q.body,
     pc |-> pc, wait |-> wait, rule |-> rule, table |-> routingRules,
     token |-> "", timedOut |-> FALSE,
     fwd |-> fwd, outcome |-> NoOutcome, direct |-> FALSE, resp |-> NoResp]

\* does the fetch handler return before matching (no respondWith)
SkipsRequest(v, q) ==
    CASE v \in {"api", "auth"} ->
            \/ ~IsHttpFamily(q.url)
            \/ origin(q.url) = SelfOrigin
            \/ Len(routingRules) = 0
      [] v = "legacy" -> ~IsHttpFamily(q.url)
      [] OTHER -> origin(q.url) = SelfOrigin

\* the fetch event of a service worker, up to its first suspension point
FetchEvent(q) ==
    /\ variant \in ServiceWorkers
    /\ Len(reqs) < MaxRequests
    /\ LET rule == find(routingRules, q.url.hostname, variant)
       IN  reqs' = Append(reqs,
              IF SkipsRequest(variant, q) THEN
                  ReqRecord(q, "passthrough", "", NoRule, NoFwd)
              ELSE IF ~shouldRedirect(rule) THEN
                  ReqRecord(q, "passthrough", "", rule, NoFwd)
              ELSE IF variant = "auth" THEN
                  LET r == ReqRecord(q, "proxying", "", rule, NoFwd)
                  IN  [r EXCEPT !.fwd = ProxyRequest(variant, r, "")]
              ELSE
                  ReqRecord(q, "resolving", "clients", rule, NoFwd))
    /\ UNCHANGED <<variant, routingRules, activation, authResult, reloads,
                   mHost, mResult, mPc,
                   calls, endpoint, harness>>

\* what the wrapped fetch reads from its second argument. q is the request the
\* caller makes; with asRequest the caller passed it as a Request object and
\* no init, so init is {}: init.method || 'GET', init.headers || {},
\* init.body || null
InitSeen(q, asRequest) ==
    IF asRequest
    THEN [q EXCEPT !.method = "GET", !.headers = EmptyHeaders, !.body = ""]
    ELSE q

\* a call of the wrapped window.fetch installed by initializeFetchInterceptor
WindowFetch(q, asRequest) ==
    /\ variant = "interceptor"
    /\ activation.pc = "Done"
    /\ Len(reqs) < MaxRequests
    /\ LET rule == find(routingRules, q.url.hostname, variant)
       IN  reqs' = Append(reqs,
              IF SkipsRequest(variant, q) THEN
                  ReqRecord(q, "passthrough", "", NoRule, NoFwd)
              ELSE IF rule = NoRule THEN
                  ReqRecord(q, "passthrough", "", rule, NoFwd)
              ELSE
                  LET r == ReqRecord(q, "proxying", "", rule, NoFwd)
                  IN  [r EXCEPT !.fwd = ProxyRequest(variant, InitSeen(r, asRequest),
                                                     authResult)])
    /\ UNCHANGED <<variant, routingRules, activation, authResult, reloads,
                   mHost, mResult, mPc,
                   calls, endpoint, harness>>

-----------------------------------------------------------------------------
(* Credential resolver: getCFAccessToken *)

\* the proxy fetch is issued with the headers built from the resolved token
Forward(i, token) ==
    reqs' = [reqs EXCEPT ![i] =
                [@ EXCEPT !.pc = "proxying", !.wait = "", !.token = token,
                          !.fwd = ProxyRequest(variant, reqs[i], token)]]

\* the cookie store as the worker finds it: self.cookieStore missing
\* ("unavailable"), getAll() rejecting ("restricted"), or holding at most one
\* cookie of interest
Jar(st, n, val) == [state |-> st, name |-> n, value |-> val]
NoCookies == Jar("ok", "", "")
JarOf(cookie) == IF cookie = "" THEN NoCookies ELSE Jar("ok", "CF_Authorization", cookie)

\* the cookie names the worker accepts (the includes() tests of
\* api-proxy-sw.js are taken on the two names themselves)
RecognizedCookie(v, n) ==
    IF v = "api" THEN n \in {"CF_Authorization", "cf_clearance", "__cf_bm"}
    ELSE n = "CF_Authorization"

\* the value the cookie lookup returns, "" when it returns nothing
cookieValue(v, jar) ==
    IF jar.state = "ok" /\ RecognizedCookie(v, jar.name) THEN jar.value ELSE ""

\* the page did not answer GET_CF_TOKEN
NoPageReply == "<none>"

\* result of getCFAccessToken: the token ("" is null), the strategies it
\* consulted in order, and whether its promise settles
Credential(t, tr, st) == [token |-> t, tried |-> tr, settles |-> st]

\* getCFAccessToken with n window clients, the page's reply to GET_CF_TOKEN
\* (NoPageReply: none before the timer, or none at all in sw.js) and the
\* cookie store jar.
\* api-proxy-sw.js asks the page first and falls back to the cookie store;
\* sw.js reads the cookie store first and asks the page only without a cookie.
getCFAccessToken(v, n, reply, jar) ==
    LET reads == IF jar.state = "unavailable" THEN <<>> ELSE <<"cookie">>
    IN  IF v = "api" THEN
            LET asks == IF n > 0 THEN <<"page">> ELSE <<>>
                pageToken == IF n > 0 /\ reply # NoPageReply THEN reply ELSE ""
            IN  IF pageToken # "" THEN Credential(pageToken, asks, TRUE)
                ELSE Credential(cookieValue(v, jar), asks \o reads, TRUE)
        ELSE
            \* a rejecting getAll() leaves the function; the caller's catch
            \* goes on without a token
            IF jar.state = "restricted" THEN Credential("", reads, TRUE)
            ELSE IF cookieValue(v, jar) # "" THEN
                Credential(cookieValue(v, jar), reads, TRUE)
            ELSE IF n > 0 THEN
                Credential(IF reply = NoPageReply THEN "" ELSE reply,
                           reads \o <<"page">>, reply # NoPageReply)
            ELSE Credential("", reads, TRUE)

\* whether getCFAccessToken posts GET_CF_TOKEN to a client
AsksPage(v, n, jar) ==
    LET tried == getCFAccessToken(v, n, NoPageReply, jar).tried
    IN  \E k \in DOMAIN tried : tried[k] = "page"

\* clients.matchAll() has answered (and, in sw.js, the cookie store)
ResolveStart(i, hasClient, cookie) ==
    /\ i \in DOMAIN reqs
    /\ reqs[i].pc = "resolving"
    /\ reqs[i].wait = "clients"
    /\ LET n == IF hasClient THEN 1 ELSE 0
       IN  IF AsksPage(variant, n, JarOf(cookie))
           THEN reqs' = [reqs EXCEPT ![i].wait = "reply"]
           ELSE Forward(i, getCFAccessToken(variant, n, NoPageReply,
                                            JarOf(cookie)).token)
    /\ UNCHANGED <<variant, routingRules, activation, authResult, reloads,
                   mHost, mResult, mPc,
                   calls, endpoint, harness>>

\* the page answers GET_CF_TOKEN on the reply port
TokenReply(i, cfToken, cookie) ==
    /\ i \in DOMAIN reqs
    /\ reqs[i].pc = "resolving"
    /\ reqs[i].wait = "reply"
    \* sw.js has read the cookie store before it asked, and found nothing
    /\ LET jar == IF variant = "api" THEN JarOf(cookie) ELSE NoCookies
       IN  Forward(i, getCFAccessToken(variant, 1, cfToken, jar).token)
    /\ UNCHANGED <<variant, routingRules, activation, authResult, reloads,
                   mHost, mResult, mPc,
                   calls, endpoint, harness>>

TokenTimeoutNever(i, cookie) == FALSE /\ UNCHANGED vars

\* setTimeout(() => resolve(null), 2000) fires first (api-proxy-sw.js only)
TokenTimeout(i, cookie) ==
    /\ variant = "api"
    /\ i \in DOMAIN reqs
    /\ reqs[i].pc = "resolving"
    /\ reqs[i].wait = "reply"
    /\ LET token == getCFAccessToken(variant, 1, NoPageReply, JarOf(cookie)).token
       IN  reqs' = [reqs EXCEPT ![i] =
              [@ EXCEPT !.pc = "proxying", !.wait = "", !.token = token,
                        !.timedOut = TRUE,
                        !.fwd = ProxyRequest(variant, reqs[i], token)]]
    /\ UNCHANGED <<variant, routingRules, activation, authResult, reloads,
                   mHost, mResult, mPc,
                   calls, endpoint, harness>>

-----------------------------------------------------------------------------
(* Forwarder: outcome of the proxy fetch and failure recovery *)

ForwardResultRetry5xx(v, out) ==
    IF out.kind = "response" /\ out.status < 500 THEN Resp(out.status, "proxy")
    ELSE NoResp

\* what the proxy fetch's outcome makes of the respondWith promise: a response
\* for the caller, Rejected, or NoResp when the direct fallback runs.
\* Sources: "proxy" is the proxy's own Response object, "synth" a synthesized
\* Response with a JSON body carrying error and message.
ForwardResult(v, out) ==
    IF out.kind = "response" THEN
        IF v = "auth" /\ out.status \in {401, 403} /\ ~out.location
        THEN Resp(401, "synth")
        ELSE Resp(out.status, "proxy")
    ELSE
        CASE v = "api" ->
                \* the catch block reads `workerUrl`, a const of the try block:
                \* a ReferenceError is thrown out of the catch
                IF out.kind = "TypeErrorFetch" THEN Rejected ELSE NoResp
          [] v = "auth" ->
                IF out.kind = "TypeErrorFetch" THEN Resp(503, "synth") ELSE NoResp
          [] v = "legacy" -> Resp(502, "synth")
          [] OTHER -> Resp(500, "synth")

ProxyDone(i, out) ==
    /\ i \in DOMAIN reqs
    /\ reqs[i].pc = "proxying"
    /\ LET res == ForwardResult(variant, out)
       IN  reqs' = [reqs EXCEPT ![i] =
              IF res = NoResp
              THEN [@ EXCEPT !.pc = "fallback", !.outcome = out, !.direct = TRUE]
              ELSE IF res = Rejected
              THEN [@ EXCEPT !.pc = "rejected", !.outcome = out]
              ELSE [@ EXCEPT !.pc = "done", !.outcome = out, !.resp = res]]
    /\ UNCHANGED <<variant, routingRules, activation, authResult, reloads,
                   mHost, mResult, mPc,
                   calls, endpoint, harness>>

FallbackDoneLoadsFallback(i, ok) ==
    /\ i \in DOMAIN reqs
    /\ reqs[i].pc = "fallback"
    /\ reqs' = [reqs EXCEPT ![i] =
          [@ EXCEPT !.pc = "done",
                    !.resp = IF ok THEN Resp(200, "direct")
                              ELSE Resp(503, "synth-text")]]
    /\ routingRules' = IF ok THEN routingRules ELSE loadFallbackConfig(variant)
    /\ UNCHANGED <<variant, activation, authResult, reloads,
                   mHost, mResult, mPc,
                   calls, endpoint, harness>>

\* fetch(event.request), the direct fallback, settles: its response, or the
\* plain-text 503 ("synth-text") when it rejects too
FallbackDone(i, ok) ==
    /\ i \in DOMAIN reqs
    /\ reqs[i].pc = "fallback"
    /\ reqs' = [reqs EXCEPT ![i] =
          [@ EXCEPT !.pc = "done",
                    !.resp = IF ok THEN Resp(200, "direct")
                              ELSE Resp(503, "synth-text")]]
    /\ UNCHANGED <<variant, routingRules, activation, authResult, reloads,
                   mHost, mResult, mPc,
                   calls, endpoint, harness>>

-----------------------------------------------------------------------------
(* The agent *)

Next ==
    \/ Activate
    \/ \E out \in ConfigOutcomes : LoadDone(out)
    \/ ReloadMessage
    \/ \E k \in 1..MaxReloads, out \in ConfigOutcomes : ReloadDone(k, out)
    \/ \E q \in Requests : FetchEvent(q)
    \/ \E q \in Requests, asRequest \in BOOLEAN : WindowFetch(q, asRequest)
    \/ \E i \in 1..MaxRequests, c \in BOOLEAN, ck \in CookieValues :
          ResolveStart(i, c, ck)
    \/ \E i \in 1..MaxRequests, t \in PageTokens, ck \in CookieValues :
          TokenReply(i, t, ck)
    \/ \E i \in 1..MaxRequests, ck \in CookieValues : TokenTimeout(i, ck)
    \/ \E i \in 1..MaxRequests, out \in ProxyOutcomes : ProxyDone(i, out)
    \/ \E i \in 1..MaxRequests, ok \in BOOLEAN : FallbackDone(i, ok)

Spec == Init /\ [][Next]_vars

\* Scheduling.  The browser settles every fetch (with a response or an error),
\* answers clients.matchAll() and cookieStore.getAll(), and fires a timer that
\* was set.
NetworkSettles ==
    /\ WF_vars(\E i \in 1..MaxRequests, c \in BOOLEAN, ck \in CookieValues :
                  ResolveStart(i, c, ck))
    /\ WF_vars(\E i \in 1..MaxRequests, ck \in CookieValues : TokenTimeout(i, ck))
    /\ WF_vars(\E i \in 1..MaxRequests, out \in ProxyOutcomes : ProxyDone(i, out))
    /\ WF_vars(\E i \in 1..MaxRequests, ok \in BOOLEAN : FallbackDone(i, ok))

\* the page answers every GET_CF_TOKEN message it is sent
PageAnswers ==
    WF_vars(\E i \in 1..MaxRequests, t \in PageTokens, ck \in CookieValues :
               TokenReply(i, t, ck))

\* The credential resolver of api-proxy-sw.js on its own: the worker is
\* activated with a table installed, requests arrive, and the page may never
\* answer GET_CF_TOKEN.
ResolverInit ==
    /\ variant = "api"
    /\ routingRules \in {ApiFallbackRules, HubTable}
    /\ activation = [pc |-> "Done", failed |-> FALSE]
    /\ authResult = ""
    /\ reloads = <<>>
    /\ reqs = <<>>
    /\ mHost = <<>>
    /\ mResult = NoRule
    /\ mPc = "idle"
    /\ calls = <<>>
    /\ endpoint = AnyAnswer
    /\ HarnessIdle

ResolverNext ==
    \/ \E q \in Requests : FetchEvent(q)
    \/ \E i \in 1..MaxRequests, c \in BOOLEAN, ck \in CookieValues :
          ResolveStart(i, c, ck)
    \/ \E i \in 1..MaxRequests, t \in PageTokens, ck \in CookieValues :
          TokenReply(i, t, ck)
    \/ \E i \in 1..MaxRequests, ck \in CookieValues : TokenTimeout(i, ck)
    \/ \E i \in 1..MaxRequests, out \in ProxyOutcomes : ProxyDone(i, out)
    \/ \E i \in 1..MaxRequests, ok \in BOOLEAN : FallbackDone(i, ok)

SpecResolver == ResolverInit /\ [][ResolverNext]_vars /\ NetworkSettles

\* The legacy sw.js on its own: activated with a table installed, requests
\* arrive, and the page may never answer GET_CF_TOKEN.  It sets no timer and
\* has no direct fallback.
LegacyInit ==
    /\ variant = "legacy"
    /\ routingRules \in {ApiFallbackRules, HubTable, SaltTable}
    /\ activation = [pc |-> "Done", failed |-> FALSE]
    /\ authResult = ""
    /\ reloads = <<>>
    /\ reqs = <<>>
    /\ mHost = <<>>
    /\ mResult = NoRule
    /\ mPc = "idle"
    /\ calls = <<>>
    /\ endpoint = AnyAnswer
    /\ HarnessIdle

LegacyNext ==
    \/ \E q \in Requests : FetchEvent(q)
    \/ \E i \in 1..MaxRequests, c \in BOOLEAN, ck \in CookieValues :
          ResolveStart(i, c, ck)
    \/ \E i \in 1..MaxRequests, t \in PageTokens, ck \in CookieValues :
          TokenReply(i, t, ck)
    \/ \E i \in 1..MaxRequests, out \in ProxyOutcomes : ProxyDone(i, out)

SpecLegacy == LegacyInit /\ [][LegacyNext]_vars /\ NetworkSettles

\* the agent when every network call and every message round trip settles
SpecSettling == Spec /\ NetworkSettles /\ PageAnswers

-----------------------------------------------------------------------------
(* Control channel: the page-side reload call and the worker's reply *)

\* the page script that registered the worker
CallerOf(v) == IF v = "auth" THEN "authProxy" ELSE "swUtils"

\* what the call does when navigator.serviceWorker.controller is null:
\* swUtils throws, authProxy returns false
NoControllerSettlement(caller) ==
    IF caller = "swUtils"
    THEN Settlement("reject", NoReply, "No active service worker")
    ELSE Settlement("resolve", NoReply, "false")

\* what port1.onmessage makes of a reply: swUtils resolves with event.data or
\* rejects with new Error(event.data.error); authProxy returns a boolean
ReplySettlement(caller, reply) ==
    IF caller = "swUtils"
    THEN IF reply.success THEN Settlement("resolve", reply, "")
         ELSE Settlement("reject", NoReply, reply.error)
    ELSE Settlement("resolve", NoReply, IF reply.success THEN "true" ELSE "false")

\* swUtils.reloadRoutingConfig() / authProxy.reloadConfig() is called
ReloadCall(hasController) ==
    /\ Len(calls) < MaxCalls
    /\ LET caller == CallerOf(variant)
       IN  calls' = Append(calls,
              IF hasController THEN Call(caller, "sent", 1, <<>>)
              ELSE Call(caller, "settled", 0, <<NoControllerSettlement(caller)>>))
    /\ UNCHANGED <<variant, routingRules, activation, authResult, reloads, reqs,
                   mHost, mResult, mPc, endpoint, harness>>

\* the message of call c reaches the worker's message handler
ControlMessage(c) ==
    /\ c \in DOMAIN calls
    /\ calls[c].pc = "sent"
    /\ calls' = [calls EXCEPT ![c].pc = "delivered"]
    /\ OnReloadMessage(c)
    /\ UNCHANGED <<variant, routingRules, activation, authResult, reqs,
                   mHost, mResult, mPc, endpoint, harness>>

\* messageChannel.port1.onmessage of call c runs for the next reply
PortMessage(c) ==
    /\ c \in DOMAIN calls
    /\ calls[c].handled < Len(calls[c].inbox)
    /\ LET reply == calls[c].inbox[calls[c].handled + 1]
       IN  calls' = [calls EXCEPT ![c] =
              [@ EXCEPT !.pc = "settled",
                        !.handled = @ + 1,
                        !.settled = Append(@, ReplySettlement(calls[c].caller, reply))]]
    /\ UNCHANGED <<variant, routingRules, activation, authResult, reloads, reqs,
                   mHost, mResult, mPc, endpoint, harness>>

\* a worker that has finished its startup load, a page that calls reload, and
\* an endpoint whose answer does not change
ControlInit ==
    /\ variant \in ServiceWorkers
    /\ routingRules \in {<<>>, SaltTable}
    /\ activation = [pc |-> "Done", failed |-> FALSE]
    /\ authResult = ""
    /\ reloads = <<>>
    /\ reqs = <<>>
    /\ mHost = <<>>
    /\ mResult = NoRule
    /\ mPc = "idle"
    /\ calls = <<>>
    /\ endpoint \in {Endpoint(TRUE, out) : out \in ConfigOutcomes}
    /\ HarnessIdle

ControlNext ==
    \/ \E ctl \in BOOLEAN : ReloadCall(ctl)
    \/ \E c \in 1..MaxCalls : ControlMessage(c)
    \/ \E k \in 1..MaxCalls, out \in ConfigOutcomes : ReloadDone(k, out)
    \/ \E c \in 1..MaxCalls : PortMessage(c)

\* messages are delivered, the config fetch settles, port events are dispatched
ControlFairness ==
    /\ WF_vars(\E c \in 1..MaxCalls : ControlMessage(c))
    /\ WF_vars(\E k \in 1..MaxCalls, out \in ConfigOutcomes : ReloadDone(k, out))
    /\ WF_vars(\E c \in 1..MaxCalls : PortMessage(c))

SpecControl == ControlInit /\ [][ControlNext]_vars /\ ControlFairness

-----------------------------------------------------------------------------
(* Matcher harness: the matcher applied to every table and hostname *)

MatchDomains == {HubApiHost, HubRootHost, <<"hub">>}

MatchRules ==
    {Rule(d, a, IF a = 1 THEN "" ELSE "S1") : d \in MatchDomains, a \in {1, 2, 3}}

MatchTables == SeqsUpTo(MatchRules, MaxRules)

MatchHosts ==
    {HubApiHost, HubRootHost, EvilHubHost, OtherHost,
     <<"x", DOT, "hub", "api", DOT, "com">>}

MatchInit ==
    /\ variant \in Variants
    /\ routingRules \in MatchTables
    /\ activation = [pc |-> "Done", failed |-> FALSE]
    /\ authResult = ""
    /\ reloads = <<>>
    /\ reqs = <<>>
    /\ mHost \in MatchHosts
    /\ mResult = NoRule
    /\ mPc = "ready"
    /\ calls = <<>>
    /\ endpoint = AnyAnswer
    /\ HarnessIdle

Match ==
    /\ mPc = "ready"
    /\ mResult' = find(routingRules, mHost, variant)
    /\ mPc' = "matched"
    /\ UNCHANGED <<variant, routingRules, activation, authResult, reloads,
                   reqs, mHost,
                   calls, endpoint, harness>>

MatchNext == Match

SpecMatch == MatchInit /\ [][MatchNext]_vars

-----------------------------------------------------------------------------
(* The routing-config endpoint: functions/routing.json.js *)

\* const routingConfig
routingConfig == ApiFallbackRules

allowedOrigins ==
    << "https://apps.simplesalt.company",
       "https://studio.plasmic.app",
       "https://host.plasmicdev.com",
       "http://localhost:3000",
       "http://localhost:54423",
       "http://localhost:55753" >>

\* Array.prototype.includes on an array of strings
arrayIncludes(arr, x) == \E n \in DOMAIN arr : arr[n] = x

\* a response body: null, JSON text of a value, or plain text
Body(k, t, v) == [kind |-> k, text |-> t, value |-> v]
NullBody == Body("null", "", <<>>)
JsonBody(v) == Body("json", "", v)
TextBody(t) == Body("text", t, <<>>)

corsOriginAny(o) == "*"

\* const corsOrigin; request.headers.get('Origin') is Absent when there is no
\* Origin header
corsOrigin(o) == IF arrayIncludes(allowedOrigins, o) THEN o ELSE "*"

corsHeaders(o) ==
    [ allowOrigin  |-> corsOrigin(o),
      allowMethods |-> "GET, OPTIONS",
      allowHeaders |-> "Content-Type, Authorization",
      maxAge       |-> "86400",
      contentType  |-> "application/json" ]

HttpResponse(st, b, h) == [status |-> st, body |-> b, headers |-> h]

onRequest(request) ==
    IF request.method = "OPTIONS"
    THEN HttpResponse(200, NullBody, corsHeaders(request.origin))
    ELSE IF request.method = "GET"
         THEN HttpResponse(200, JsonBody(routingConfig), corsHeaders(request.origin))
         ELSE HttpResponse(405, TextBody("Method not allowed"),
                           corsHeaders(request.origin))

EndpointMethods == {"GET", "OPTIONS", "HEAD", "POST", "PUT", "PATCH", "DELETE"}

\* the allow-list, no Origin header, and two origins outside the list
EndpointOrigins ==
    {allowedOrigins[n] : n \in DOMAIN allowedOrigins}
        \cup {Absent, "https://evil.org", "https://apps.simplesalt.company.evil.org"}

EndpointInit ==
    /\ variant = "api"
    /\ routingRules = <<>>
    /\ activation = [pc |-> "Done", failed |-> FALSE]
    /\ authResult = ""
    /\ reloads = <<>>
    /\ reqs = <<>>
    /\ mHost = <<>>
    /\ mResult = NoRule
    /\ mPc = "idle"
    /\ calls = <<>>
    /\ endpoint = AnyAnswer
    /\ hPc = "called"
    /\ arg \in [method : EndpointMethods, origin : EndpointOrigins]
    /\ ret = <<>>
    /\ cfAuth = NoAuth
    /\ now = 0
    /\ docCookie = ""

\* the Pages function answers the request
OnRequest ==
    /\ hPc = "called"
    /\ ret' = onRequest(arg)
    /\ hPc' = "returned"
    /\ UNCHANGED <<variant, routingRules, activation, authResult, reloads, reqs,
                   mHost, mResult, mPc, calls, endpoint,
                   arg, cfAuth, now, docCookie>>

EndpointNext == OnRequest

SpecEndpoint == EndpointInit /\ [][EndpointNext]_vars

-----------------------------------------------------------------------------
(* Credential resolver harness: getCFAccessToken over its inputs *)

Jars ==
    { Jar("unavailable", "", ""),
      Jar("restricted", "CF_Authorization", "CK"),
      NoCookies,
      Jar("ok", "CF_Authorization", "CK"),
      Jar("ok", "cf_clearance", "CL") }

CredentialInit ==
    /\ variant \in {"api", "legacy"}
    /\ routingRules = <<>>
    /\ activation = [pc |-> "Done", failed |-> FALSE]
    /\ authResult = ""
    /\ reloads = <<>>
    /\ reqs = <<>>
    /\ mHost = <<>>
    /\ mResult = NoRule
    /\ mPc = "idle"
    /\ calls = <<>>
    /\ endpoint = AnyAnswer
    /\ hPc = "called"
    /\ arg \in [clients : 0..2, reply : PageTokens \cup {NoPageReply}, jar : Jars]
    /\ ret = <<>>
    /\ cfAuth = NoAuth
    /\ now = 0
    /\ docCookie = ""

\* the promise of getCFAccessToken settles
GetToken ==
    /\ hPc = "called"
    /\ LET c == getCFAccessToken(variant, arg.clients, arg.reply, arg.jar)
       IN  /\ c.settles
           /\ ret' = c
    /\ hPc' = "returned"
    /\ UNCHANGED <<variant, routingRules, activation, authResult, reloads, reqs,
                   mHost, mResult, mPc, calls, endpoint,
                   arg, cfAuth, now, docCookie>>

CredentialNext == GetToken

SpecCredential == CredentialInit /\ [][CredentialNext]_vars

-----------------------------------------------------------------------------
(* The page-side credential cache: class CFAuth of cf-auth.js and its copy in
   api-proxy-sw.js *)

\* which copy of the class runs
CFAuthCopies == {"cf-auth", "api"}

\* tokens whose payload parses, with their exp claim in minutes
Jwts == {"JA", "JB"}
jwtExp(jwt) == IF jwt = "JA" THEN 3 ELSE 5

\* what the CF_Authorization cookie can hold; "" is no cookie, "OPAQUE" a
\* value that is not a JWT
CfTokens == Jwts \cup {"OPAQUE"}

\* parseTokenExpiry at time t
parseTokenExpiry(jwt, t) == IF jwt \in Jwts THEN jwtExp(jwt) ELSE t + DefaultExpiry

\* isTokenValid at time t (a tokenExpiry of 0 is null)
isTokenValid(a, t) == a.tokenExpiry # 0 /\ t < a.tokenExpiry - ExpiryBuffer

\* what a call returns: the function, the value ("" is null), where the value
\* came from, and the instance after the call
Returned(f, val, from, a) == [fn |-> f, value |-> val, from |-> from, auth |-> a]

\* CFAuth.getCFAccessToken at time t with the cookie CF_Authorization=cookie
cfGetCFAccessToken(a, t, cookie) ==
    IF a.cfAccessToken # "" /\ isTokenValid(a, t)
    THEN Returned("getCFAccessToken", a.cfAccessToken, "cache", a)
    ELSE IF cookie # ""
    THEN Returned("getCFAccessToken", cookie, "cookie",
                  [cfAccessToken |-> cookie,
                   tokenExpiry |-> parseTokenExpiry(cookie, t)])
    ELSE Returned("getCFAccessToken", "", "none", a)

\* performSilentAuth. login is the token the login round trip produces, ""
\* when it produces none.
\* cf-auth.js: the token of the response header, else the cookie, is cached
\* with its expiry; without one the page is redirected and the call never
\* returns.  api-proxy-sw.js: an existing session cookie is cached without an
\* expiry; else the token the iframe flow leaves is cached with its expiry.
performSilentAuth(copy, a, t, cookie, login) ==
    IF copy = "cf-auth" THEN
        LET jwt == IF login # "" THEN login ELSE cookie
        IN  IF jwt # ""
            THEN Returned("initializeAuth", jwt, "login",
                          [cfAccessToken |-> jwt,
                           tokenExpiry |-> parseTokenExpiry(jwt, t)])
            ELSE Returned("initializeAuth", "", "redirect", a)
    ELSE
        IF cookie # ""
        THEN Returned("initializeAuth", cookie, "session",
                      [a EXCEPT !.cfAccessToken = cookie])
        ELSE IF login # ""
        THEN Returned("initializeAuth", login, "login",
                      [cfAccessToken |-> login,
                       tokenExpiry |-> parseTokenExpiry(login, t)])
        ELSE Returned("initializeAuth", "", "none", a)

\* CFAuth.initializeAuth
initializeAuth(copy, a, t, cookie, login) ==
    LET g == cfGetCFAccessToken(a, t, cookie)
    IN  IF g.value # "" /\ isTokenValid(g.auth, t)
        THEN Returned("initializeAuth", g.value, g.from, g.auth)
        ELSE performSilentAuth(copy, g.auth, t, cookie, login)

CFAuthInit ==
    /\ variant \in CFAuthCopies
    /\ routingRules = <<>>
    /\ activation = [pc |-> "Done", failed |-> FALSE]
    /\ authResult = ""
    /\ reloads = <<>>
    /\ reqs = <<>>
    /\ mHost = <<>>
    /\ mResult = NoRule
    /\ mPc = "idle"
    /\ calls = <<>>
    /\ endpoint = AnyAnswer
    /\ hPc = "idle"
    /\ arg = <<>>
    /\ ret = <<>>
    /\ cfAuth = NoAuth
    /\ now = 0
    /\ docCookie \in CfTokens \cup {""}

\* a minute passes; the value of the last call is no longer looked at
Tick ==
    /\ now < MaxTime
    /\ now' = now + 1
    /\ hPc' = "idle"
    /\ ret' = <<>>
    /\ UNCHANGED <<variant, routingRules, activation, authResult, reloads, reqs,
                   mHost, mResult, mPc, calls, endpoint,
                   arg, cfAuth, docCookie>>

\* Cloudflare Access sets the cookie, or the browser drops it
SetCookie(c) ==
    /\ docCookie # c
    /\ docCookie' = c
    /\ hPc' = "idle"
    /\ ret' = <<>>
    /\ UNCHANGED <<variant, routingRules, activation, authResult, reloads, reqs,
                   mHost, mResult, mPc, calls, endpoint,
                   arg, cfAuth, now>>

\* a caller (the GET_CF_TOKEN handler, addAuthHeaders) calls getCFAccessToken
GetCFAccessToken ==
    /\ LET r == cfGetCFAccessToken(cfAuth, now, docCookie)
       IN  /\ ret' = r
           /\ cfAuth' = r.auth
    /\ hPc' = "returned"
    /\ UNCHANGED <<variant, routingRules, activation, authResult, reloads, reqs,
                   mHost, mResult, mPc, calls, endpoint,
                   arg, now, docCookie>>

\* initializeAuth runs to its end; the iframe flow of api-proxy-sw.js leaves
\* its token in the cookie
InitializeAuth(login) ==
    /\ LET r == initializeAuth(variant, cfAuth, now, docCookie, login)
       IN  /\ ret' = r
           /\ cfAuth' = r.auth
           /\ hPc' = IF r.from = "redirect" THEN "redirected" ELSE "returned"
           /\ docCookie' = IF variant = "api" /\ r.from = "login" THEN login
                            ELSE docCookie
    /\ UNCHANGED <<variant, routingRules, activation, authResult, reloads, reqs,
                   mHost, mResult, mPc, calls, endpoint,
                   arg, now>>

CFAuthNext ==
    \/ Tick
    \/ \E c \in CfTokens \cup {""} : SetCookie(c)
    \/ GetCFAccessToken
    \/ \E login \in CfTokens \cup {""} : InitializeAuth(login)

SpecCFAuth == CFAuthInit /\ [][CFAuthNext]_vars

-----------------------------------------------------------------------------
(* Legacy host-rewrite worker: the second sw.js, whose rules carry a
   destination *)

ProxyHost == <<"api", DOT, "simplesalt", DOT, "company">>        \* api.simplesalt.company
SubHubHost == <<"eu", DOT, "api", DOT, "hub", "api", DOT, "com">> \* eu.api.hubapi.com

\* a rule without a destination field
NoDestination == <<"<undefined>">>

RewriteRule(d, a, sn, dest) ==
    [domain |-> d, authType |-> a, secretName |-> sn, destination |-> dest]

\* a URL by its components
UrlParts(pr, h, po, pa, se) ==
    [protocol |-> pr, hostname |-> h, port |-> po, pathname |-> pa, search |-> se]

\* url.hostname as a string
hostString(h) ==
    CASE h = HubApiHost -> "api.hubapi.com"
      [] h = SubHubHost -> "eu.api.hubapi.com"
      [] h = EvilHubHost -> "api.hubapi.com.evil.org"
      [] h = ProxyHost -> "api.simplesalt.company"
      [] OTHER -> "example.org"

\* findMatchingRoute: exact match or subdomain match, first rule wins
findMatchingRoute(config, hostname) ==
    LET hits == {n \in DOMAIN config :
                    \/ hostname = config[n].domain
                    \/ endsWith(hostname, <<DOT>> \o config[n].domain)}
    IN  IF hits = {} THEN 0 ELSE CHOOSE n \in hits : \A m \in hits : n <= m

setHostnameKeepsHost(url, dest) == url

\* destinationUrl.hostname = routingRule.destination: a missing destination
\* is assigned as the string 'undefined'
setHostname(url, dest) ==
    [url EXCEPT !.hostname = IF dest = NoDestination THEN <<"undefined">> ELSE dest]

\* the Request handed to fetch, or the 502 of the catch block
Rewritten(k, url, m, h, b) ==
    [kind |-> k, url |-> url, method |-> m, headers |-> h, body |-> b,
     credentials |-> "omit"]

\* handleApiRequest up to fetch(modifiedRequest). streamOk: whether the
\* platform accepts request.body, a stream, as the body of a new Request
handleApiRequest(request, rule, token, streamOk) ==
    LET hasBody == request.method # "GET" /\ request.method # "HEAD"
                       /\ request.body # ""
        h1 == HeaderSet(request.headers, "x-original-host",
                        hostString(request.url.hostname))
        h2 == HeaderSet(h1, "x-auth-type", AuthTypeString(rule.authType))
        h3 == IF rule.secretName # ""
              THEN HeaderSet(h2, "x-secret-name", rule.secretName) ELSE h2
        h4 == IF token # ""
              THEN HeaderSet(h3, "cf-access-jwt-assertion", token) ELSE h3
    IN  IF hasBody /\ ~streamOk
        THEN Rewritten("error502", request.url, "", EmptyHeaders, "")
        ELSE Rewritten("forwarded", setHostname(request.url, rule.destination),
                       request.method, h4, IF hasBody THEN request.body ELSE "")

\* the fetch handler: pass through, or respondWith(handleApiRequest(...))
rewriteFetch(config, request, token, streamOk) ==
    LET n == findMatchingRoute(config, request.url.hostname)
    IN  IF request.url.protocol \notin {"http:", "https:"} \/ n = 0
           \/ ~shouldRedirect(config[n])
        THEN [Rewritten("passthrough", request.url, "", EmptyHeaders, "")
                 EXCEPT !.credentials = ""]
        ELSE handleApiRequest(request, config[n], token, streamOk)

RewriteUrls ==
    { UrlParts("https:", HubApiHost, "", "/contacts/v1", "?limit=5"),
      UrlParts("http:", SubHubHost, "8443", "/y", ""),
      UrlParts("https:", EvilHubHost, "", "/", ""),
      UrlParts("chrome-extension:", HubApiHost, "", "/y", "") }

RewriteRequests ==
    {[url |-> u, method |-> "GET", headers |-> PlainHeaders, body |-> ""] :
        u \in RewriteUrls}
    \cup {[url |-> u, method |-> "POST", headers |-> SpoofHeaders, body |-> "payload"] :
             u \in RewriteUrls}

RewriteConfigs ==
    { <<RewriteRule(HubApiHost, a, sn, dest)>> :
         a \in {1, 2, 3}, sn \in {"", "S1"}, dest \in {ProxyHost, NoDestination} }

RewriteInit ==
    /\ variant = "rewrite"
    /\ routingRules = <<>>
    /\ activation = [pc |-> "Done", failed |-> FALSE]
    /\ authResult = ""
    /\ reloads = <<>>
    /\ reqs = <<>>
    /\ mHost = <<>>
    /\ mResult = NoRule
    /\ mPc = "idle"
    /\ calls = <<>>
    /\ endpoint = AnyAnswer
    /\ hPc = "called"
    /\ arg \in [config : RewriteConfigs, request : RewriteRequests,
                 cookie : CookieValues]
    /\ ret = <<>>
    /\ cfAuth = NoAuth
    /\ now = 0
    /\ docCookie = ""

\* the fetch event is handled; no window client exists, so getCFAccessToken
\* settles with the cookie or null
RewriteFetchEvent(streamOk) ==
    /\ hPc = "called"
    /\ ret' = rewriteFetch(arg.config, arg.request,
                getCFAccessToken("legacy", 0, NoPageReply, JarOf(arg.cookie)).token,
                streamOk)
    /\ hPc' = "returned"
    /\ UNCHANGED <<variant, routingRules, activation, authResult, reloads, reqs,
                   mHost, mResult, mPc, calls, endpoint,
                   arg, cfAuth, now, docCookie>>

RewriteNext == \E streamOk \in BOOLEAN : RewriteFetchEvent(streamOk)

SpecRewrite == RewriteInit /\ [][RewriteNext]_vars

-----------------------------------------------------------------------------
(* Header transformer harness: the same request sent by two callers that
   differ only in the headers they supply *)

\* a caller that supplies the assertion header of sw.js and sw-register.js
ForgedHeaders == HeaderSet(PlainHeaders, "cf-access-jwt-assertion", "FORGED")

CallerHeaders == {PlainHeaders, SpoofHeaders, ForgedHeaders}

\* the header the agent carries the Cloudflare Access token in
AssertionHeaders(v) ==
    CASE v = "api" -> {"x-cf-access-token"}
      [] v = "auth" -> {"x-cf-access-token", "cf-access-jwt-assertion"}
      [] OTHER -> {"cf-access-jwt-assertion"}

TransformInit ==
    /\ variant \in Variants
    /\ routingRules = <<>>
    /\ activation = [pc |-> "Done", failed |-> FALSE]
    /\ authResult = ""
    /\ reloads = <<>>
    /\ reqs = <<>>
    /\ mHost = <<>>
    /\ mResult = NoRule
    /\ mPc = "idle"
    /\ calls = <<>>
    /\ endpoint = AnyAnswer
    /\ hPc = "called"
    /\ arg \in [url : {UrlHub, UrlHubRoot}, authType : {2, 3},
                 secretName : {"", "S1"},
                 token : IF variant = "auth" THEN {""} ELSE PageTokens,
                 a : CallerHeaders, b : CallerHeaders]
    /\ ret = <<>>
    /\ cfAuth = NoAuth
    /\ now = 0
    /\ docCookie = ""

\* both callers' requests are matched by the same rule and their proxy
\* headers are built with the same token
TransformBoth ==
    /\ hPc = "called"
    /\ LET rule == Rule(arg.url.hostname, arg.authType, arg.secretName)
           hdr(h) == ProxyHeaders(variant, Request(arg.url, "POST", h, "payload"),
                                  rule, arg.token)
       IN  ret' = [a |-> hdr(arg.a), b |-> hdr(arg.b)]
    /\ hPc' = "returned"
    /\ UNCHANGED <<variant, routingRules, activation, authResult, reloads, reqs,
                   mHost, mResult, mPc, calls, endpoint,
                   arg, cfAuth, now, docCookie>>

TransformNext == TransformBoth

SpecTransform == TransformInit /\ [][TransformNext]_vars

-----------------------------------------------------------------------------
(* Overlapping loads: the startup load and reloads in flight together, each
   with the answer its fetch will settle with *)

\* a network error, a 200 with each non-empty table, a 500 with a JSON body
OverlapOutcomes ==
    {NetworkError,
     ConfigOutcome(TRUE, TRUE, TRUE, HubTable),
     ConfigOutcome(TRUE, TRUE, TRUE, SaltTable),
     ConfigOutcome(TRUE, FALSE, TRUE, HubTable)}

\* a config fetch in flight or settled
Load(kind, out, pc) == [kind |-> kind, out |-> out, pc |-> pc]

OverlapInit ==
    /\ variant \in ServiceWorkers
    /\ routingRules = InitialRules
    /\ activation = [pc |-> "Uninitialized", failed |-> FALSE]
    /\ authResult = ""
    /\ reloads = <<>>
    /\ reqs = <<>>
    /\ mHost = <<>>
    /\ mResult = NoRule
    /\ mPc = "idle"
    /\ calls = <<>>
    /\ endpoint = AnyAnswer
    /\ hPc = "loads"
    /\ arg = <<>>
    /\ ret = <<>>
    /\ cfAuth = NoAuth
    /\ now = 0
    /\ docCookie = ""

\* the activate event (kind "load", once) or a RELOAD_ROUTING_CONFIG message
\* (kind "reload") issues its fetch
StartLoad(kind, out) ==
    /\ hPc = "loads"
    /\ Len(arg) < MaxLoads
    /\ kind = "load" => \A k \in DOMAIN arg : arg[k].kind # "load"
    /\ arg' = Append(arg, Load(kind, out, "fetching"))
    /\ UNCHANGED <<variant, routingRules, activation, authResult, reloads, reqs,
                   mHost, mResult, mPc, calls, endpoint,
                   hPc, ret, cfAuth, now, docCookie>>

\* the fetch of load k settles and its continuation runs; ret logs the
\* completions in order with the table each left
FinishLoad(k) ==
    /\ hPc = "loads"
    /\ k \in DOMAIN arg
    /\ arg[k].pc = "fetching"
    /\ LET new == IF arg[k].kind = "load"
                  THEN LoadedTable(variant, routingRules, arg[k].out)
                  ELSE ReloadedTable(variant, routingRules, arg[k].out)
       IN  /\ routingRules' = Install(routingRules, new)
           /\ ret' = Append(ret, [k |-> k, table |-> Install(routingRules, new)])
    /\ arg' = [arg EXCEPT ![k].pc = "done"]
    /\ UNCHANGED <<variant, activation, authResult, reloads, reqs,
                   mHost, mResult, mPc, calls, endpoint,
                   hPc, cfAuth, now, docCookie>>

OverlapNext ==
    \/ \E kind \in {"load", "reload"}, out \in OverlapOutcomes : StartLoad(kind, out)
    \/ \E k \in 1..MaxLoads : FinishLoad(k)

SpecOverlap == OverlapInit /\ [][OverlapNext]_vars

-----------------------------------------------------------------------------
(* Credential round trips of concurrent requests: the MessageChannel each
   call of getCFAccessToken creates, the 2-second timer, and the page's
   GET_CF_TOKEN listener *)

\* tokens window.cfAuth.getCFAccessToken() can return to the listener
ChannelTokens == {"", "JWT", "JWT2"}

\* the promise one call of getCFAccessToken awaits: pending or resolved, the
\* value it resolved with ("" is null), whether its timer has fired
Wait(pc, token, fired) == [pc |-> pc, token |-> token, fired |-> fired]

\* a GET_CF_TOKEN message at the page: the port transferred with it, whether
\* the listener has run, and the token it posted
TokenMessage(port, answered, token) ==
    [port |-> port, answered |-> answered, token |-> token]

\* resolve(v) on the promise of wait w: only the first call has an effect
resolve(w, v) == IF w.pc = "pending" THEN [w EXCEPT !.pc = "resolved", !.token = v] ELSE w

MessagePortShared(m) == 1

\* event.ports[0] of message m: port2 of the channel created by the call that
\* posted it
MessagePort(m) == ret[m].port

ChannelInit ==
    /\ variant = "api"
    /\ routingRules = <<>>
    /\ activation = [pc |-> "Done", failed |-> FALSE]
    /\ authResult = ""
    /\ reloads = <<>>
    /\ reqs = <<>>
    /\ mHost = <<>>
    /\ mResult = NoRule
    /\ mPc = "idle"
    /\ calls = <<>>
    /\ endpoint = AnyAnswer
    /\ hPc = "channels"
    /\ arg = <<>>
    /\ ret = <<>>
    /\ cfAuth = NoAuth
    /\ now = 0
    /\ docCookie = ""

\* getCFAccessToken with a client: new MessageChannel(), the promise, the
\* timer, and postMessage({type: 'GET_CF_TOKEN'}, [port2])
AskPage ==
    /\ hPc = "channels"
    /\ Len(arg) < MaxChannels
    /\ arg' = Append(arg, Wait("pending", "", FALSE))
    /\ ret' = Append(ret, TokenMessage(Len(arg) + 1, FALSE, ""))
    /\ UNCHANGED <<variant, routingRules, activation, authResult, reloads, reqs,
                   mHost, mResult, mPc, calls, endpoint,
                   hPc, cfAuth, now, docCookie>>

\* the page's listener handles message m and posts {cfToken: token} on
\* event.ports[0]; port1.onmessage runs resolve(event.data.cfToken || null)
PageReply(m, token) ==
    /\ hPc = "channels"
    /\ m \in DOMAIN ret
    /\ ~ret[m].answered
    /\ ret' = [ret EXCEPT ![m] = TokenMessage(ret[m].port, TRUE, token)]
    /\ arg' = [arg EXCEPT ![MessagePort(m)] = resolve(@, token)]
    /\ UNCHANGED <<variant, routingRules, activation, authResult, reloads, reqs,
                   mHost, mResult, mPc, calls, endpoint,
                   hPc, cfAuth, now, docCookie>>

\* setTimeout(() => resolve(null), 2000) of call k fires
ChannelTimeout(k) ==
    /\ hPc = "channels"
    /\ k \in DOMAIN arg
    /\ ~arg[k].fired
    /\ arg' = [arg EXCEPT ![k] = [resolve(@, "") EXCEPT !.fired = TRUE]]
    /\ UNCHANGED <<variant, routingRules, activation, authResult, reloads, reqs,
                   mHost, mResult, mPc, calls, endpoint,
                   hPc, ret, cfAuth, now, docCookie>>

ChannelNext ==
    \/ AskPage
    \/ \E m \in 1..MaxChannels, token \in ChannelTokens : PageReply(m, token)
    \/ \E k \in 1..MaxChannels : ChannelTimeout(k)

SpecChannels == ChannelInit /\ [][ChannelNext]_vars

-----------------------------------------------------------------------------
(* Direct fallback and the request body: api-proxy-sw.js and the worker that
   the Plasmic registration script generates *)

FallbackWorkers == {"api", "plasmic"}

\* the intercepted Request: its method, its body ("" is a null body) and
\* its bodyUsed flag
OriginalRequests ==
    {[method |-> m, body |-> "", bodyUsed |-> FALSE] :
        m \in {"GET", "HEAD", "POST", "PUT", "DELETE"}}
    \cup {[method |-> m, body |-> "payload", bodyUsed |-> FALSE] :
             m \in {"POST", "PUT", "DELETE"}}

\* the request after the worker has taken the body for the proxy fetch:
\* event.request.clone().blob() reads the clone, request.blob() reads the
\* request itself and disturbs a body that is not null
readBody(v, request) ==
    IF request.method # "GET" /\ request.method # "HEAD"
    THEN [request EXCEPT !.bodyUsed = (v = "plasmic" /\ request.body # "")]
    ELSE request

\* what the worker makes of the proxy fetch's outcome (NoResp: it goes on to
\* the direct fallback)
fallbackForwardResult(v, out) ==
    IF v = "plasmic"
    THEN IF out.kind = "response" THEN Resp(out.status, "proxy") ELSE NoResp
    ELSE ForwardResult(v, out)

\* what the handler ended with: the value of the respondWith promise, whether
\* it went through the direct fallback, the request it issued directly
Ended(resp, fellBack, issued) ==
    [resp |-> resp, fellBack |-> fellBack, issued |-> issued]

\* fetch(request) of the catch block.  A Request whose body was used cannot
\* be fetched: the call throws before anything is sent.  ok: whether the
\* direct request, once sent, gets a response
directFallback(v, request, ok) ==
    IF request.bodyUsed \/ ~ok
    THEN Ended(IF v = "api" THEN Resp(503, "synth-text") ELSE Rejected, TRUE,
               IF request.bodyUsed THEN "" ELSE request.method)
    ELSE Ended(Resp(200, "direct"), TRUE, request.method)

FallbackInit ==
    /\ variant \in FallbackWorkers
    /\ routingRules = <<>>
    /\ activation = [pc |-> "Done", failed |-> FALSE]
    /\ authResult = ""
    /\ reloads = <<>>
    /\ reqs = <<>>
    /\ mHost = <<>>
    /\ mResult = NoRule
    /\ mPc = "idle"
    /\ calls = <<>>
    /\ endpoint = AnyAnswer
    /\ hPc = "matched"
    /\ arg \in OriginalRequests
    /\ ret = <<>>
    /\ cfAuth = NoAuth
    /\ now = 0
    /\ docCookie = ""

\* the handler builds the proxy request and issues it
IssueProxyFetch ==
    /\ hPc = "matched"
    /\ arg' = readBody(variant, arg)
    /\ hPc' = "proxying"
    /\ UNCHANGED <<variant, routingRules, activation, authResult, reloads, reqs,
                   mHost, mResult, mPc, calls, endpoint,
                   ret, cfAuth, now, docCookie>>

\* the proxy fetch settles
ProxyFetchSettles(out) ==
    /\ hPc = "proxying"
    /\ LET res == fallbackForwardResult(variant, out)
       IN  IF res = NoResp
           THEN hPc' = "fallback" /\ ret' = ret
           ELSE hPc' = "returned" /\ ret' = Ended(res, FALSE, "")
    /\ UNCHANGED <<variant, routingRules, activation, authResult, reloads, reqs,
                   mHost, mResult, mPc, calls, endpoint,
                   arg, cfAuth, now, docCookie>>

\* the direct fallback runs to its end
DirectFallback(ok) ==
    /\ hPc = "fallback"
    /\ ret' = directFallback(variant, arg, ok)
    /\ hPc' = "returned"
    /\ UNCHANGED <<variant, routingRules, activation, authResult, reloads, reqs,
                   mHost, mResult, mPc, calls, endpoint,
                   arg, cfAuth, now, docCookie>>

FallbackNext ==
    \/ IssueProxyFetch
    \/ \E out \in ProxyOutcomes : ProxyFetchSettles(out)
    \/ \E ok \in BOOLEAN : DirectFallback(ok)

SpecFallback == FallbackInit /\ [][FallbackNext]_vars

-----------------------------------------------------------------------------
(* Installation of the fetch interceptor on an external domain:
   setupFetchInterceptor, createAuthUI, initializeFetchInterceptor and the
   window.apiProxy utilities of sw-register.js *)

\* the browser's own fetch function; a wrapper is named by its position in
\* the list of wrappers created so far
NativeFetch == 0

\* the function initializeFetchInterceptor assigns to window.fetch: the
\* table and the originalFetch its closure holds
Wrapper(rules, originalFetch) == [rules |-> rules, originalFetch |-> originalFetch]

\* window.apiProxy as setupExternalAPIProxy builds it (present: FALSE when
\* the property is undefined)
ApiProxy(present, originalFetch) == [present |-> present, originalFetch |-> originalFetch]

\* the page: window.fetch, window.apiProxy, whether the login UI is in the
\* document, and the wrappers created so far
Page(f, ap, ui, ws) == [fetch |-> f, apiProxy |-> ap, authUI |-> ui, wrappers |-> ws]

installsAlways(out) == TRUE

\* does initializeFetchInterceptor get past its try block: the fetch of
\* routing.json settled with a response and response.json() parsed
installs(out) == out.net /\ out.json

\* initializeFetchInterceptor after its fetch settled with `out`
initializeFetchInterceptor(page, out) ==
    IF ~installs(out) THEN page
    ELSE LET w == Wrapper(out.rules, page.fetch)
         IN  Page(Len(page.wrappers) + 1, ApiProxy(TRUE, page.fetch), page.authUI,
                  Append(page.wrappers, w))

restoreOriginalFetchNative(page) == [page EXCEPT !.fetch = NativeFetch]

\* apiProxy.restoreOriginalFetch: window.fetch = originalFetch
restoreOriginalFetch(page) == [page EXCEPT !.fetch = page.apiProxy.originalFetch]

RECURSIVE proxies(_, _, _)
\* does calling function f of the page with a cross-origin URL of host h end
\* in a request to the proxy
proxies(page, f, h) ==
    IF f = NativeFetch THEN FALSE
    ELSE IF find(page.wrappers[f].rules, h, "interceptor") # NoRule THEN TRUE
    ELSE proxies(page, page.wrappers[f].originalFetch, h)

InstallInit ==
    /\ variant = "interceptor"
    /\ routingRules = <<>>
    /\ activation = [pc |-> "Done", failed |-> FALSE]
    /\ authResult = ""
    /\ reloads = <<>>
    /\ reqs = <<>>
    /\ mHost = <<>>
    /\ mResult = NoRule
    /\ mPc = "idle"
    /\ calls = <<>>
    /\ endpoint = AnyAnswer
    /\ hPc = "start"
    /\ arg = Page(NativeFetch, ApiProxy(FALSE, NativeFetch), FALSE, <<>>)
    /\ ret = <<>>
    /\ cfAuth = NoAuth
    /\ now = 0
    /\ docCookie = ""

\* a call of initializeFetchInterceptor has issued its fetch of routing.json
Initializing == [pc |-> "fetching", out |-> NetworkError]

\* setupFetchInterceptor after checkCFAuth has answered
SetupFetchInterceptor(authenticated) ==
    /\ hPc = "start"
    /\ hPc' = "page"
    /\ IF authenticated
       THEN arg' = arg /\ ret' = Append(ret, Initializing)
       ELSE arg' = [arg EXCEPT !.authUI = TRUE] /\ ret' = ret
    /\ UNCHANGED <<variant, routingRules, activation, authResult, reloads, reqs,
                   mHost, mResult, mPc, calls, endpoint,
                   cfAuth, now, docCookie>>

\* the fetch of routing.json of call k settles and the call runs to its end
InitializeDone(k, out) ==
    /\ hPc \in {"page", "restored"}
    /\ k \in DOMAIN ret
    /\ ret[k].pc = "fetching"
    /\ arg' = initializeFetchInterceptor(arg, out)
    /\ ret' = [ret EXCEPT ![k] = [pc |-> IF installs(out) THEN "installed" ELSE "failed",
                                  out |-> out]]
    /\ hPc' = "page"
    /\ UNCHANGED <<variant, routingRules, activation, authResult, reloads, reqs,
                   mHost, mResult, mPc, calls, endpoint,
                   cfAuth, now, docCookie>>

\* apiProxy.authenticate(), or apiProxy.recheckAuth() finding the session
\* expired: createAuthUI
Authenticate ==
    /\ hPc \in {"page", "restored"}
    /\ arg.apiProxy.present
    /\ ~arg.authUI
    /\ arg' = [arg EXCEPT !.authUI = TRUE]
    /\ hPc' = "page"
    /\ UNCHANGED <<variant, routingRules, activation, authResult, reloads, reqs,
                   mHost, mResult, mPc, calls, endpoint,
                   ret, cfAuth, now, docCookie>>

\* the login window was closed and pollAuth found the user authenticated:
\* the UI is removed and initializeFetchInterceptor is called (a failed check
\* only changes the status text)
LoginDone ==
    /\ hPc \in {"page", "restored"}
    /\ arg.authUI
    /\ Len(ret) < MaxInstalls
    /\ arg' = [arg EXCEPT !.authUI = FALSE]
    /\ ret' = Append(ret, Initializing)
    /\ hPc' = "page"
    /\ UNCHANGED <<variant, routingRules, activation, authResult, reloads, reqs,
                   mHost, mResult, mPc, calls, endpoint,
                   cfAuth, now, docCookie>>

\* the close button of the login UI
CloseAuthUI ==
    /\ hPc \in {"page", "restored"}
    /\ arg.authUI
    /\ arg' = [arg EXCEPT !.authUI = FALSE]
    /\ hPc' = "page"
    /\ UNCHANGED <<variant, routingRules, activation, authResult, reloads, reqs,
                   mHost, mResult, mPc, calls, endpoint,
                   ret, cfAuth, now, docCookie>>

\* window.apiProxy.restoreOriginalFetch()
RestoreOriginalFetch ==
    /\ hPc = "page"
    /\ arg.apiProxy.present
    /\ arg' = restoreOriginalFetch(arg)
    /\ hPc' = "restored"
    /\ UNCHANGED <<variant, routingRules, activation, authResult, reloads, reqs,
                   mHost, mResult, mPc, calls, endpoint,
                   ret, cfAuth, now, docCookie>>

InstallNext ==
    \/ \E authenticated \in BOOLEAN : SetupFetchInterceptor(authenticated)
    \/ \E k \in 1..MaxInstalls, out \in ConfigOutcomes : InitializeDone(k, out)
    \/ Authenticate
    \/ LoginDone
    \/ CloseAuthUI
    \/ RestoreOriginalFetch

SpecInstall == InstallInit /\ [][InstallNext]_vars

-----------------------------------------------------------------------------
(* The silent-auth flow of class CFAuth: authInProgress, performSilentAuth and
   waitForAuth, in cf-auth.js and in the copy of api-proxy-sw.js *)

\* how the flow's attempt ends: a token, no credential, or an exception
FlowOutcomes == {"token", "none", "error"}

\* a call of performSilentAuth: kind "flow" (it set authInProgress) or
\* "waiter" (it returned waitForAuth()), and where its promise stands
AuthCall(kind, pc) == [kind |-> kind, pc |-> pc]

\* where the promise of a flow stands once its attempt has ended with `o`.
\* cf-auth.js: without a token it returns await redirectToLogin(), whose
\* promise never settles; a rejected fetch is rethrown.
\* api-proxy-sw.js: it returns the token or null in every case.
flowEnds(copy, o) ==
    IF copy = "cf-auth"
    THEN CASE o = "token" -> "resolved"
           [] o = "none" -> "redirecting"
           [] OTHER -> "rejected"
    ELSE "resolved"

\* does the finally block run, setting authInProgress to false: only when
\* the try block or the catch block has completed
releases(copy, o) == flowEnds(copy, o) # "redirecting"

SilentAuthInit ==
    /\ variant \in CFAuthCopies
    /\ routingRules = <<>>
    /\ activation = [pc |-> "Done", failed |-> FALSE]
    /\ authResult = ""
    /\ reloads = <<>>
    /\ reqs = <<>>
    /\ mHost = <<>>
    /\ mResult = NoRule
    /\ mPc = "idle"
    /\ calls = <<>>
    /\ endpoint = AnyAnswer
    /\ hPc = "auth"
    /\ arg = [authInProgress |-> FALSE]
    /\ ret = <<>>
    /\ cfAuth = NoAuth
    /\ now = 0
    /\ docCookie = ""

\* performSilentAuth is called, up to its first await
PerformSilentAuth ==
    /\ hPc = "auth"
    /\ Len(ret) < MaxAuthCalls
    /\ IF arg.authInProgress
       THEN ret' = Append(ret, AuthCall("waiter", "waiting")) /\ arg' = arg
       ELSE /\ ret' = Append(ret, AuthCall("flow", "running"))
            /\ arg' = [arg EXCEPT !.authInProgress = TRUE]
    /\ UNCHANGED <<variant, routingRules, activation, authResult, reloads, reqs,
                   mHost, mResult, mPc, calls, endpoint,
                   hPc, cfAuth, now, docCookie>>

\* the attempt of flow k ends (the login fetch settles; the session check or
\* the iframe polling, which gives up after 30 tries, ends)
FlowEnds(k, o) ==
    /\ hPc = "auth"
    /\ k \in DOMAIN ret
    /\ ret[k] = AuthCall("flow", "running")
    /\ ret' = [ret EXCEPT ![k].pc = flowEnds(variant, o)]
    /\ arg' = [arg EXCEPT !.authInProgress = IF releases(variant, o) THEN FALSE ELSE @]
    /\ UNCHANGED <<variant, routingRules, activation, authResult, reloads, reqs,
                   mHost, mResult, mPc, calls, endpoint,
                   hPc, cfAuth, now, docCookie>>

\* checkAuth of waitForAuth runs and finds authInProgress false (while it is
\* true it only sets its 100 ms timer again)
WaitForAuthResolves(k) ==
    /\ hPc = "auth"
    /\ k \in DOMAIN ret
    /\ ret[k] = AuthCall("waiter", "waiting")
    /\ ~arg.authInProgress
    /\ ret' = [ret EXCEPT ![k].pc = "resolved"]
    /\ UNCHANGED <<variant, routingRules, activation, authResult, reloads, reqs,
                   mHost, mResult, mPc, calls, endpoint,
                   hPc, arg, cfAuth, now, docCookie>>

SilentAuthNext ==
    \/ PerformSilentAuth
    \/ \E k \in 1..MaxAuthCalls, o \in FlowOutcomes : FlowEnds(k, o)
    \/ \E k \in 1..MaxAuthCalls : WaitForAuthResolves(k)

\* the network settles the flow's fetch and timers fire.  A waiter's poll is
\* strongly fair: it runs every 100 ms for as long as the waiter waits.
SilentAuthFairness ==
    /\ WF_vars(\E k \in 1..MaxAuthCalls, o \in FlowOutcomes : FlowEnds(k, o))
    /\ \A k \in 1..MaxAuthCalls : SF_vars(WaitForAuthResolves(k))

SpecSilentAuth == SilentAuthInit /\ [][SilentAuthNext]_vars /\ SilentAuthFairness

-----------------------------------------------------------------------------
(* Vocabulary of the properties, stated without the matcher's own code *)

\* d is the whole of h
IsExact(h, d) == Len(h) = Len(d) /\ \A i \in 1..Len(d) : h[i] = d[i]

\* h is a proper subdomain of d: h ends with "." followed by d
IsSubdomain(h, d) ==
    /\ Len(h) > Len(d)
    /\ h[Len(h) - Len(d)] = DOT
    /\ \A i \in 1..Len(d) : h[Len(h) - Len(d) + i] = d[i]

\* d occurs somewhere inside h
IsSubstring(h, d) ==
    \E k \in 0..(Len(h) - Len(d)) : \A i \in 1..Len(d) : h[k + i] = d[i]

Qualifies(h, d) == IsExact(h, d) \/ IsSubdomain(h, d) \/ IsSubstring(h, d)

\* what the variant's matcher accepts
Accepts(v, h, rule) ==
    IF v = "interceptor"
    THEN rule.authType \in {2, 3} /\ (IsExact(h, rule.domain) \/ IsSubdomain(h, rule.domain))
    ELSE Qualifies(h, rule.domain)

IsFirstAccepted(v, T, h, i) ==
    /\ i \in DOMAIN T
    /\ Accepts(v, h, T[i])
    /\ \A j \in 1..(i - 1) : ~Accepts(v, h, T[j])

NoneAccepted(v, T, h) == \A i \in DOMAIN T : ~Accepts(v, h, T[i])

\* the first rule in table order the matcher accepts, NoRule when there is none
FirstAccepted(v, T, h) ==
    IF NoneAccepted(v, T, h) THEN NoRule
    ELSE T[CHOOSE i \in DOMAIN T : IsFirstAccepted(v, T, h, i)]

\* respondWith was called (service workers) / the call was proxied (interceptor)
Intercepted(r) == r.pc # "passthrough"

\* the agent issued no network request of its own for r
IssuedNothing(r) == r.fwd = NoFwd /\ ~r.direct

CrossOriginHttp(r) == IsHttpFamily(r.url) /\ origin(r.url) # SelfOrigin

-----------------------------------------------------------------------------
\* C1: every request forwarded to the proxy endpoint for a matched rule of
\* authType 2 or 3 carries X-Auth-Type equal to the string form of that rule's
\* authType, X-Original-URL equal to the original request URL and, when the
\* rule has a secretName, X-Secret-Name equal to it.
C1_ControlHeaders ==
    \A i \in DOMAIN reqs :
        LET r == reqs[i] IN
        r.fwd.target = "proxy" =>
            /\ r.rule.authType \in {2, 3}
            /\ r.rule = FirstAccepted(variant, r.table, r.url.hostname)
            /\ r.fwd.headers["x-auth-type"] =
                  (IF r.rule.authType = 2 THEN "2" ELSE "3")
            /\ r.fwd.headers["x-original-url"] = r.url.href
            /\ r.rule.secretName # "" =>
                  r.fwd.headers["x-secret-name"] = r.rule.secretName

\* a forwarded request whose caller supplied its own X-Auth-Type and
\* X-Secret-Name, matched by a rule that has a secretName
C1_Witness ==
    \E i \in DOMAIN reqs :
        /\ reqs[i].fwd.target = "proxy"
        /\ reqs[i].rule.secretName = "S1"
        /\ reqs[i].headers["x-secret-name"] = "EVIL"
        /\ reqs[i].headers["x-auth-type"] = "1"

\* C2: in the service workers, a request whose matched rule (the first rule in
\* table order that matches its hostname) has authType 1 gets no substituted
\* response: respondWith is not called and nothing is sent to the proxy.
C2_AuthType1PassesThrough ==
    \A i \in DOMAIN reqs :
        LET r == reqs[i] IN
        (/\ variant \in ServiceWorkers
         /\ FirstAccepted(variant, r.table, r.url.hostname).authType = 1)
        => (~Intercepted(r) /\ IssuedNothing(r) /\ r.resp = NoResp)

\* a cross-origin HTTP request whose first matching rule has authType 1 while a
\* later rule of authType 2 matches it too
C2_Witness ==
    \E i \in DOMAIN reqs :
        /\ variant \in ServiceWorkers
        /\ CrossOriginHttp(reqs[i])
        /\ reqs[i].table = HubTable
        /\ reqs[i].url.hostname = HubApiHost
        /\ reqs[i].rule.authType = 1
        /\ ~Intercepted(reqs[i])

\* C3: in the service workers, a request whose URL origin equals the agent's
\* own origin, or whose protocol is not http/https, is never intercepted: no
\* respondWith, no proxy request, no credential resolution.
C3_SameOriginNoOp ==
    \A i \in DOMAIN reqs :
        LET r == reqs[i] IN
        (/\ variant \in ServiceWorkers
         /\ (origin(r.url) = SelfOrigin \/ ~IsHttpFamily(r.url)))
        => (~Intercepted(r) /\ IssuedNothing(r))

\* C4: a request for which the matcher returns no rule is left alone: on its
\* arrival respondWith is not called, no network request is issued and the
\* table, the load state and the reloads are unchanged; nothing happens to it
\* afterwards.
C4_NoMatchNoEffect ==
    [][ \A i \in DOMAIN reqs' :
          NoneAccepted(variant, reqs'[i].table, reqs'[i].url.hostname) =>
             IF i \in DOMAIN reqs THEN reqs'[i] = reqs[i]
             ELSE /\ ~Intercepted(reqs'[i])
                  /\ IssuedNothing(reqs'[i])
                  /\ reqs'[i].resp = NoResp
                  /\ UNCHANGED <<routingRules, activation, authResult, reloads>>
      ]_vars

\* a cross-origin HTTP request that met a non-empty table none of whose rules
\* matches it
C4_Witness ==
    \E i \in DOMAIN reqs :
        /\ CrossOriginHttp(reqs[i])
        /\ reqs[i].table # <<>>
        /\ NoneAccepted(variant, reqs[i].table, reqs[i].url.hostname)
        /\ ~Intercepted(reqs[i])

\* C5: the matcher of the service workers is first-match-wins in table order:
\* for every table and hostname it returns the first rule whose domain equals
\* the hostname, or is followed from a dot at the end of the hostname, or
\* occurs inside the hostname, and returns none when no rule qualifies.
C5_FirstMatchWins ==
    (mPc = "matched" /\ variant \in ServiceWorkers) =>
        \/ /\ \A i \in DOMAIN routingRules : ~Qualifies(mHost, routingRules[i].domain)
           /\ mResult = NoRule
        \/ \E i \in DOMAIN routingRules :
              /\ Qualifies(mHost, routingRules[i].domain)
              /\ \A j \in 1..(i - 1) : ~Qualifies(mHost, routingRules[j].domain)
              /\ mResult = routingRules[i]

\* rules api.hubapi.com then hubapi.com, hostname api.hubapi.com: both rules
\* match and the first one is returned
C5_Witness ==
    /\ mPc = "matched"
    /\ variant = "api"
    /\ mHost = HubApiHost
    /\ routingRules = <<Rule(HubApiHost, 1, ""), Rule(HubRootHost, 2, "S1")>>
    /\ mResult = Rule(HubApiHost, 1, "")

\* a rule that matches the hostname, but not by equality
MatchesNotExactly(h, rule) ==
    ~IsExact(h, rule.domain) /\ (IsSubdomain(h, rule.domain) \/ IsSubstring(h, rule.domain))

\* C6 as stated: whenever the table holds a rule whose domain equals the
\* hostname and another rule that matches only as suffix or substring, the
\* matcher returns the exact-match rule.
C6_ExactPreferred ==
    (/\ mPc = "matched"
     /\ variant \in ServiceWorkers
     /\ \E i \in DOMAIN routingRules : IsExact(mHost, routingRules[i].domain)
     /\ \E j \in DOMAIN routingRules : MatchesNotExactly(mHost, routingRules[j]))
    => IsExact(mHost, mResult.domain)

\* C6 amended: for a table holding a rule whose domain equals the hostname,
\* the matcher returns an exact-match rule when no rule matching only as
\* suffix or substring precedes it; otherwise it returns a rule that precedes
\* it (first match wins).
C6_ExactPreferredWhenFirst ==
    (mPc = "matched" /\ variant \in ServiceWorkers) =>
        \A i \in DOMAIN routingRules :
            IsExact(mHost, routingRules[i].domain) =>
                IF \A j \in 1..(i - 1) : ~MatchesNotExactly(mHost, routingRules[j])
                THEN IsExact(mHost, mResult.domain)
                ELSE \E j \in 1..(i - 1) : mResult = routingRules[j]

\* an exact-match rule placed before a rule that matches as a suffix
C6_Witness ==
    /\ mPc = "matched"
    /\ variant = "auth"
    /\ mHost = HubApiHost
    /\ Len(routingRules) = 2
    /\ IsExact(mHost, routingRules[1].domain)
    /\ MatchesNotExactly(mHost, routingRules[2])
    /\ mResult = routingRules[1]

\* C7: every intercepted request has a hostname that equals the domain of some
\* rule of the table it was matched against, or is a proper subdomain of it.
C7_OnlyConfiguredDomains ==
    \A i \in DOMAIN reqs :
        LET r == reqs[i] IN
        Intercepted(r) =>
            \E k \in DOMAIN r.table :
                \/ IsExact(r.url.hostname, r.table[k].domain)
                \/ IsSubdomain(r.url.hostname, r.table[k].domain)

\* C8: when the config fetch of the startup load fails (network error, non-2xx
\* or malformed JSON) the service worker installs its hardcoded fallback table
\* and has a usable, non-empty table once the load is over.
C8_FallbackOnFailedLoad ==
    [][ (/\ variant \in ServiceWorkers
         /\ activation.pc = "Loading"
         /\ activation'.pc # "Loading"
         /\ activation'.failed)
        => (/\ activation'.pc = "Done"
            /\ routingRules' \in {ApiFallbackRules, AuthFallbackRules}
            /\ Len(routingRules') > 0)
      ]_vars

\* C9: a RELOAD_ROUTING_CONFIG whose fetch fails (network error, non-2xx or
\* malformed JSON) leaves the table that was installed immediately before it.
C9_FailedReloadKeepsTable ==
    [][ \A k \in DOMAIN reloads :
          (/\ reloads[k].pc = "fetching"
           /\ reloads'[k].pc = "replied"
           /\ reloads'[k].failed)
          => routingRules' = routingRules
      ]_vars

\* every table a load or a reload can produce as a whole
CompleteTables(v) ==
    {<<>>}
    \cup {out.rules : out \in ConfigOutcomes}
    \cup (IF v = "api" THEN {ApiFallbackRules}
          ELSE IF v = "auth" THEN {AuthFallbackRules} ELSE {})

\* C10: with reloads running concurrently, the installed table is always one
\* complete table; every request was matched against one complete table and
\* got the first rule of that table accepting its hostname; a matched request
\* keeps that rule for the rest of its handling, so the request forwarded for
\* it carries the authType and secretName of the rule it was matched with,
\* whatever table is installed by then.
C10_AtomicTable ==
    [][ /\ routingRules' \in CompleteTables(variant)
        /\ \A i \in DOMAIN reqs :
              /\ i \in DOMAIN reqs'
              /\ reqs'[i].rule = reqs[i].rule
              /\ reqs'[i].table = reqs[i].table
        /\ \A i \in DOMAIN reqs' :
              LET r == reqs'[i] IN
              /\ r.table \in CompleteTables(variant)
              /\ r.rule \in {NoRule, FirstAccepted(variant, r.table, r.url.hostname)}
              /\ Intercepted(r) => r.rule = FirstAccepted(variant, r.table, r.url.hostname)
              /\ r.fwd.target = "proxy" =>
                    /\ r.fwd.headers["x-auth-type"] = AuthTypeString(r.rule.authType)
                    /\ r.fwd.headers["x-secret-name"] \in {r.rule.secretName, Absent}
      ]_vars

\* a request matched under one table is still waiting for its credential when
\* a reload has installed a table under which it would match another rule
C10_Witness ==
    \E i \in DOMAIN reqs, k \in DOMAIN reloads :
        /\ reqs[i].pc = "resolving"
        /\ reloads[k].pc = "replied"
        /\ routingRules # reqs[i].table
        /\ find(routingRules, reqs[i].url.hostname, variant) # reqs[i].rule

-----------------------------------------------------------------------------
\* C11: in the service workers, a request that arrives while the agent is
\* Uninitialized or Loading and no reload has installed a table is passed
\* through at once: respondWith is not called, nothing is issued and nothing
\* is awaited, whatever host it goes to.
C11_NoInterceptionBeforeTable ==
    [][ (/\ variant \in ServiceWorkers
         /\ activation.pc \in {"Uninitialized", "Loading"}
         /\ \A k \in DOMAIN reloads : reloads[k].pc = "fetching"
         /\ Len(reqs') = Len(reqs) + 1)
        => LET r == reqs'[Len(reqs')] IN
           /\ ~Intercepted(r)
           /\ r.wait = ""
           /\ IssuedNothing(r)
           /\ r.resp = NoResp
           /\ UNCHANGED <<routingRules, activation, reloads>>
      ]_vars

\* a request to hubapi.com went through untouched before the startup load
\* installed a table that proxies hubapi.com
C11_Witness ==
    \E i \in DOMAIN reqs :
        /\ variant \in ServiceWorkers
        /\ reloads = <<>>
        /\ activation.pc = "Done"
        /\ reqs[i].table = <<>>
        /\ reqs[i].url.hostname = HubRootHost
        /\ ~Intercepted(reqs[i])
        /\ shouldRedirect(find(routingRules, reqs[i].url.hostname, variant))

\* C12: in api-proxy-sw.js and auth-proxy-sw.js, when the fetch to the proxy
\* fails with a transport error the respondWith promise does not reject, no
\* other request is issued and the caller gets the synthesized 503 whose JSON
\* body has an error field.
C12_Unreachable503 ==
    \A i \in DOMAIN reqs :
        LET r == reqs[i] IN
        (variant \in {"api", "auth"} /\ IsTransportError(r.outcome)) =>
            /\ r.pc = "done"
            /\ ~r.direct
            /\ r.resp = Resp(503, "synth")

\* C13: when every network call and message round trip settles, every
\* intercepted request ends with a Response handed to its caller.
C13_EveryInterceptedAnswered ==
    \A i \in 1..MaxRequests :
        (i \in DOMAIN reqs /\ Intercepted(reqs[i]))
            ~> (/\ i \in DOMAIN reqs
                /\ reqs[i].pc = "done"
                /\ reqs[i].resp \notin {NoResp, Rejected})

\* C14: a forwarding exception that is not a transport failure towards the
\* proxy ends with the synthesized 502 (JSON body with the error's message)
\* and nothing else is issued.
C14_OtherException502 ==
    \A i \in DOMAIN reqs :
        LET r == reqs[i] IN
        r.outcome.kind = "OtherError" =>
            /\ r.pc = "done"
            /\ ~r.direct
            /\ r.resp = Resp(502, "synth")

\* C15: a response of the proxy with a status other than 401 and 403 is what
\* the caller gets, as the proxy sent it; the request is not issued again and
\* no direct request is made.
C15_ProxyResponseUntouched ==
    [][ \A i \in DOMAIN reqs' :
          LET r == reqs'[i] IN
          (r.outcome.kind = "response" /\ r.outcome.status \notin {401, 403}) =>
              /\ r.pc = "done"
              /\ r.resp = Resp(r.outcome.status, "proxy")
              /\ ~r.direct
              /\ i \in DOMAIN reqs
              /\ r.fwd = reqs[i].fwd
      ]_vars

\* the proxy answered 500 and the caller got that 500
C15_Witness ==
    \E i \in DOMAIN reqs :
        /\ reqs[i].outcome = ProxyOutcome("response", 500, FALSE)
        /\ reqs[i].resp = Resp(500, "proxy")

\* C16: a 401 or 403 response of the proxy reaches the caller as the proxy's
\* own response when it carries a Location header, and as the synthesized 401
\* (JSON body with error, message and loginUrl) when it does not.
C16_AuthRequiredTranslated ==
    \A i \in DOMAIN reqs :
        LET r == reqs[i] IN
        (/\ variant \in {"api", "auth"}
         /\ r.outcome.kind = "response"
         /\ r.outcome.status \in {401, 403}) =>
            /\ r.pc = "done"
            /\ r.resp = (IF r.outcome.location THEN Resp(r.outcome.status, "proxy")
                         ELSE Resp(401, "synth"))

\* C17: in api-proxy-sw.js, with a page that may never answer GET_CF_TOKEN, a
\* request waiting for the answer always gets past the wait; when the timer
\* ends the wait the proxy request is issued at once, without X-CF-Access-Token
\* when the cookie store has no credential, and that proxy request settles.
C17_TimeoutBounded ==
    /\ [][ \A i \in DOMAIN reqs :
              (/\ variant = "api"
               /\ reqs[i].wait = "reply"
               /\ reqs'[i].timedOut) =>
                  /\ reqs'[i].pc = "proxying"
                  /\ reqs'[i].fwd.target = "proxy"
                  /\ (reqs'[i].token = "" =>
                        reqs'[i].fwd.headers["x-cf-access-token"] = Absent)
          ]_vars
    /\ \A i \in 1..MaxRequests :
          (variant = "api" /\ i \in DOMAIN reqs /\ reqs[i].wait = "reply")
              ~> (/\ i \in DOMAIN reqs
                  /\ reqs[i].fwd.target = "proxy"
                  /\ reqs[i].outcome # NoOutcome)

\* the timer ended the wait, no cookie credential existed, and the proxy
\* answered the request forwarded without the assertion header
C17_Witness ==
    \E i \in DOMAIN reqs :
        /\ variant = "api"
        /\ reqs[i].timedOut
        /\ reqs[i].token = ""
        /\ reqs[i].fwd.headers["x-cf-access-token"] = Absent
        /\ reqs[i].outcome = ProxyOutcome("response", 200, FALSE)

\* C18: in api-proxy-sw.js, a forwarded request carries X-CF-Access-Token
\* equal to the resolved token when the resolver returned one and no such
\* header when it returned none; once the resolver has returned, the request
\* has been forwarded either way.
C18_AssertionHeaderIffToken ==
    \A i \in DOMAIN reqs :
        LET r == reqs[i] IN
        (variant = "api" /\ Intercepted(r) /\ r.pc # "resolving") =>
            /\ r.fwd.target = "proxy"
            /\ r.token \in PageTokens \cup CookieValues
            /\ r.fwd.headers["x-cf-access-token"] =
                  (IF r.token # "" THEN r.token ELSE Absent)

\* the caller supplied an X-CF-Access-Token of its own, the resolver found
\* nothing, and the request was forwarded
C18_Witness ==
    \E i \in DOMAIN reqs :
        /\ variant = "api"
        /\ reqs[i].headers["x-cf-access-token"] = "FORGED"
        /\ reqs[i].token = ""
        /\ reqs[i].fwd.target = "proxy"

\* C19: every request sent to the proxy endpoint has credentials mode 'omit'.
C19_NoAmbientCredentials ==
    \A i \in DOMAIN reqs :
        reqs[i].fwd.target = "proxy" => reqs[i].fwd.credentials = "omit"

\* C20: the reply to a RELOAD_ROUTING_CONFIG says success:true with the number
\* of rules of the table just installed exactly when the reload's fetch did
\* not fail, and success:false with an error when it failed (network error,
\* non-2xx or malformed JSON).
C20_TruthfulReply ==
    [][ \A k \in DOMAIN reloads :
          (reloads[k].pc = "fetching" /\ reloads'[k].pc = "replied") =>
              IF reloads'[k].failed
              THEN /\ ~reloads'[k].reply.success
                   /\ reloads'[k].reply.error # ""
              ELSE /\ reloads'[k].reply.success
                   /\ reloads'[k].reply.rules = Len(routingRules')
      ]_vars

\* the reloads whose message came from call c
HandlersOf(c) == {k \in DOMAIN reloads : reloads[k].port = c}

\* C21: every RELOAD_ROUTING_CONFIG message gets exactly one reply, on the
\* port sent with it: a port never holds more than one reply, the reply it
\* holds is the one the handler of its own message produced, and a message
\* that was sent is eventually answered.
C21_OneReplyPerMessage ==
    /\ [](\A c \in DOMAIN calls :
            /\ Len(calls[c].inbox) <= calls[c].posted
            /\ Cardinality(HandlersOf(c)) <= calls[c].posted
            /\ \A n \in DOMAIN calls[c].inbox :
                  \E k \in HandlersOf(c) :
                      reloads[k].pc = "replied" /\ reloads[k].reply = calls[c].inbox[n])
    /\ \A c \in 1..MaxCalls :
          (c \in DOMAIN calls /\ calls[c].posted = 1)
              ~> (c \in DOMAIN calls /\ Len(calls[c].inbox) = 1)

\* two reloads were in flight together and each call received its one reply
C21_Witness ==
    /\ Len(calls) = 2
    /\ Len(reloads) = 2
    /\ reloads[1].port = 2
    /\ reloads[2].port = 1
    /\ \A c \in DOMAIN calls : Len(calls[c].inbox) = 1

\* C22: with an endpoint whose answer does not change, a reload that
\* completes after another reload has completed leaves every hostname with the
\* rule and the intercept decision it had before.
C22_ReloadIdempotent ==
    [][ (/\ \E k \in DOMAIN reloads :
               reloads[k].pc = "fetching" /\ reloads'[k].pc = "replied"
         /\ \E j \in DOMAIN reloads : reloads[j].pc = "replied")
        => \A h \in MatchHosts :
              LET before == find(routingRules, h, variant)
                  after == find(routingRules', h, variant)
              IN  after = before /\ shouldRedirect(after) = shouldRedirect(before)
      ]_vars

\* two successful reloads replaced an older table by the endpoint's table
C22_Witness ==
    /\ Len(reloads) = 2
    /\ \A k \in DOMAIN reloads : reloads[k].pc = "replied" /\ ~reloads[k].failed
    /\ endpoint.out.rules = HubTable
    /\ routingRules = HubTable

\* C23: a page-side reload call settles once: with a controller it posts one
\* message and, when the reply arrives, resolves with the reply if
\* reply.success and rejects with the reply's error otherwise; without a
\* controller it posts nothing and rejects with 'No active service worker'.
C23_ReloadCallSettles ==
    \A c \in DOMAIN calls :
        LET call == calls[c] IN
        /\ Len(call.settled) <= 1
        /\ call.posted = 0 =>
              call.settled = <<Settlement("reject", NoReply, "No active service worker")>>
        /\ call.posted # 0 =>
              /\ call.posted = 1
              /\ call.handled = 1 =>
                    call.settled =
                       << IF call.inbox[1].success
                          THEN Settlement("resolve", call.inbox[1], "")
                          ELSE Settlement("reject", NoReply, call.inbox[1].error) >>

\* C24: the routing-config endpoint answers OPTIONS with 200, no body and the
\* CORS headers, GET with 200 and the routing table as JSON, and every other
\* method with 405; Access-Control-Allow-Origin is the request's Origin
\* whenever that origin is one of the six allowed origins.
C24_EndpointByMethod ==
    hPc = "returned" =>
        /\ arg.method = "OPTIONS" =>
              /\ ret.status = 200
              /\ ret.body.kind = "null"
              /\ ret.headers.allowMethods = "GET, OPTIONS"
              /\ ret.headers.allowHeaders = "Content-Type, Authorization"
              /\ ret.headers.maxAge = "86400"
              /\ ret.headers.allowOrigin \in {arg.origin, "*"}
        /\ arg.method = "GET" =>
              /\ ret.status = 200
              /\ ret.body = [kind |-> "json", text |-> "", value |-> ApiFallbackRules]
        /\ arg.method \notin {"OPTIONS", "GET"} => ret.status = 405
        /\ arg.origin \in
              { "https://apps.simplesalt.company", "https://studio.plasmic.app",
                "https://host.plasmicdev.com", "http://localhost:3000",
                "http://localhost:54423", "http://localhost:55753" }
              => ret.headers.allowOrigin = arg.origin

\* a preflight from an allowed origin was answered
C24_Witness ==
    /\ hPc = "returned"
    /\ arg.method = "OPTIONS"
    /\ arg.origin = "https://studio.plasmic.app"
    /\ ret.status = 200
    /\ ret.headers.allowOrigin = "https://studio.plasmic.app"

\* header names the transformer must not copy from the caller
Reserved(n) ==
    StartsWithCf(n) \/ StartsWithX(n) \/ n \in {"host", "origin", "referer"}

\* C25: in every request a service worker sends to the proxy, a header of the original request
\* whose name starts with cf- or x-, or is host, origin or referer, does not
\* arrive with the value the caller supplied, and every other header of the
\* original request arrives unchanged.
C25_HeaderFiltering ==
    \A i \in DOMAIN reqs :
        (variant \in ServiceWorkers /\ reqs[i].fwd.target = "proxy") =>
            \A n \in HeaderNames :
                reqs[i].headers[n] # Absent =>
                    IF Reserved(n)
                    THEN reqs[i].fwd.headers[n] # reqs[i].headers[n]
                    ELSE reqs[i].fwd.headers[n] = reqs[i].headers[n]

\* C26: every request sent to the proxy has the method of the original
\* request; it has no body when that method is GET or HEAD and the body of the
\* original request otherwise.
C26_MethodAndBodyPreserved ==
    \A i \in DOMAIN reqs :
        reqs[i].fwd.target = "proxy" =>
            /\ reqs[i].fwd.method = reqs[i].method
            /\ reqs[i].fwd.body =
                  IF reqs[i].method \in {"GET", "HEAD"} THEN "" ELSE reqs[i].body

\* the page round trip gives a token: a client exists and answers with one
PageYields == arg.clients > 0 /\ arg.reply \notin {"", "<none>"}

\* the cookie store gives a token: it can be read and holds a session cookie
CookieYields ==
    /\ arg.jar.state = "ok"
    /\ arg.jar.name \in {"CF_Authorization", "cf_clearance", "__cf_bm"}

\* C27: the page round trip is tried first and its token is returned whenever
\* the page replies with one; the cookie store is consulted only when the
\* round trip gave nothing; null is returned only when neither gave a token.
C27_StrategyOrder ==
    hPc = "returned" =>
        /\ arg.clients > 0 => (ret.tried # <<>> /\ ret.tried[1] = "page")
        /\ PageYields => ret.token = arg.reply
        /\ (\E k \in DOMAIN ret.tried : ret.tried[k] = "cookie") => ~PageYields
        /\ ret.token = "" => (~PageYields /\ ~CookieYields)

\* C28: getCFAccessToken returns the cached token only before its expiry
\* minus the one-minute margin, no call of it returns a token at or past the
\* token's expiry minus the margin, and a token that does not parse gets an
\* expiry of one hour from the time it was parsed.
C28_CacheValidity ==
    (hPc = "returned" /\ ret.fn = "getCFAccessToken" /\ ret.value # "") =>
        /\ now < cfAuth.tokenExpiry - 1
        /\ ret.value \in {"JA", "JB"} => cfAuth.tokenExpiry = jwtExp(ret.value)
        /\ (ret.value \notin {"JA", "JB"} /\ ret.from = "cookie")
              => cfAuth.tokenExpiry = now + 60

\* C29: the routing table is written only by the config loader: a step of
\* request handling leaves the table as it was, and so does every step in
\* which no load and no reload advances.
C29_TableWrittenByLoaderOnly ==
    [][ (reqs' # reqs \/ (activation' = activation /\ reloads' = reloads))
            => routingRules' = routingRules ]_vars

\* a request went through match, forward and failure recovery, and the table
\* is the loaded table it was matched against
C29_Witness ==
    /\ routingRules # <<>>
    /\ \E i \in DOMAIN reqs :
          /\ reqs[i].pc = "done"
          /\ reqs[i].resp = Resp(503, "synth-text")
          /\ reqs[i].table = routingRules

\* the rule the request of the host-rewrite worker was matched with
RewriteMatched == arg.config[1]

\* C30: in the host-rewrite worker, a request forwarded for a rule of
\* authType 2 or 3 that has a destination goes to the original URL with the
\* hostname replaced by the destination and scheme, port, path and query kept;
\* it carries X-Original-Host with the original hostname, X-Auth-Type with the
\* rule's authType, and X-Secret-Name when the rule has a secret name.
C30_HostRewrite ==
    (hPc = "returned" /\ ret.kind = "forwarded"
        /\ RewriteMatched.destination # NoDestination) =>
        /\ RewriteMatched.authType \in {2, 3}
        /\ ret.url.hostname = RewriteMatched.destination
        /\ ret.url.protocol = arg.request.url.protocol
        /\ ret.url.port = arg.request.url.port
        /\ ret.url.pathname = arg.request.url.pathname
        /\ ret.url.search = arg.request.url.search
        /\ ret.headers["x-original-host"] =
              (IF arg.request.url.hostname = HubApiHost THEN "api.hubapi.com"
               ELSE "eu.api.hubapi.com")
        /\ ret.headers["x-auth-type"] =
              (IF RewriteMatched.authType = 2 THEN "2" ELSE "3")
        /\ RewriteMatched.secretName # "" =>
              ret.headers["x-secret-name"] = RewriteMatched.secretName

\* a POST to a subdomain of the rule's domain, with spoofed control headers,
\* was forwarded to the destination
C30_Witness ==
    /\ hPc = "returned"
    /\ ret.kind = "forwarded"
    /\ arg.request.method = "POST"
    /\ arg.request.url.hostname = SubHubHost
    /\ RewriteMatched.secretName = "S1"
    /\ ret.url.hostname = ProxyHost
    /\ ret.headers["x-secret-name"] = "S1"

\* C31: in the legacy sw.js, with a page that may never answer GET_CF_TOKEN,
\* every intercepted request ends with a response handed to its caller.
C31_LegacyNeverStalls ==
    \A i \in 1..MaxRequests :
        (variant = "legacy" /\ i \in DOMAIN reqs /\ Intercepted(reqs[i]))
            ~> (/\ i \in DOMAIN reqs
                /\ reqs[i].pc = "done"
                /\ reqs[i].resp \notin {NoResp, Rejected})

\* C32: two original requests with the same URL, matched by the same rule with
\* the same token available, are forwarded with identical X-Original-URL,
\* X-Auth-Type, X-Secret-Name and assertion-header values (absence included),
\* whatever headers each caller supplied.
C32_NoSpoofing ==
    hPc = "returned" =>
        \A n \in {"x-original-url", "x-auth-type", "x-secret-name"}
                    \cup AssertionHeaders(variant) :
            ret.a[n] = ret.b[n]

\* C33: in api-proxy-sw.js the installed table changes only to the hardcoded
\* fallback or on a startup load or reload whose response had a 2xx status and
\* parsed; a load or reload that got a non-2xx response never installs its body.
C33_TableProvenance ==
    [][ (variant = "api" /\ routingRules' # routingRules) =>
          \/ routingRules' = ApiFallbackRules
          \/ /\ activation.pc = "Loading"
             /\ activation'.pc = "Done"
             /\ ~activation'.failed
          \/ \E k \in DOMAIN reloads :
                /\ reloads[k].pc = "fetching"
                /\ reloads'[k].pc = "replied"
                /\ ~reloads'[k].failed
      ]_vars

\* does the handler of load l take the response's body as the table
TakesBody(v, l) ==
    /\ l.out.net /\ l.out.json
    /\ l.out.ok \/ (v = "api" /\ l.kind = "reload")

\* the table load l leaves when nothing else runs between the table `before`
\* and its completion
AloneOutcome(v, l, before) ==
    IF TakesBody(v, l) THEN l.out.rules
    ELSE IF v = "auth" THEN AuthFallbackRules
    ELSE IF v = "api" /\ l.kind = "load" THEN ApiFallbackRules
    ELSE before

\* C34: with the startup load and reloads in flight together, the table after
\* each completion is the complete outcome of the load that just finished,
\* whatever the order they were started in, and the installed table is the
\* one the last finisher left.
C34_LastCompletionWins ==
    hPc = "loads" =>
        /\ \A j \in DOMAIN ret :
              ret[j].table =
                 AloneOutcome(variant, arg[ret[j].k],
                              IF j = 1 THEN <<>> ELSE ret[j - 1].table)
        /\ routingRules = IF ret = <<>> THEN <<>> ELSE ret[Len(ret)].table

\* three loads overlapped; the one started first finished last and its table,
\* which differs from the table the others left, is the installed one
C34_Witness ==
    /\ hPc = "loads"
    /\ Len(ret) = 3
    /\ ret[1].k = 3 /\ ret[3].k = 1
    /\ arg[1].kind = "reload" /\ arg[2].kind = "load"
    /\ routingRules = arg[1].out.rules
    /\ routingRules # ret[2].table
    /\ ret[1].table # ret[2].table

\* C35: a wait of getCFAccessToken is resolved only by the reply to its own
\* GET_CF_TOKEN message or by its own timer; a reply changes no other wait,
\* and a wait that has resolved (by the timer, with null, or by a reply)
\* keeps its value when a late reply or another request's reply arrives.
C35_IsolatedRoundTrips ==
    [][ hPc = "channels" =>
          \A k \in DOMAIN arg :
             /\ arg[k].pc = "resolved" =>
                   (arg'[k].pc = "resolved" /\ arg'[k].token = arg[k].token)
             /\ (arg[k].pc = "pending" /\ arg'[k].pc = "resolved") =>
                   \/ /\ arg'[k].fired /\ ~arg[k].fired
                      /\ arg'[k].token = ""
                   \/ /\ ~ret[k].answered /\ ret'[k].answered
                      /\ arg'[k].token = ret'[k].token
      ]_vars

\* two requests wait together; the first timed out and then got a late reply
\* with a token, the second got its own reply with another token
C35_Witness ==
    /\ hPc = "channels"
    /\ Len(arg) = 2
    /\ arg[1] = Wait("resolved", "", TRUE)
    /\ ret[1] = TokenMessage(1, TRUE, "JWT")
    /\ arg[2].pc = "resolved" /\ arg[2].token = "JWT2" /\ ~arg[2].fired
    /\ ret[2] = TokenMessage(2, TRUE, "JWT2")

\* C36: when the handler has gone through the direct fallback, the original
\* request's body was not used by the worker and the original request was
\* issued directly with its method, for POST, PUT and DELETE with a body as
\* well as for GET and HEAD.
C36_FallbackRequestIntact ==
    (hPc = "returned" /\ variant \in {"api", "plasmic"} /\ ret.fellBack) =>
        /\ ~arg.bodyUsed
        /\ ret.issued = arg.method

\* C37: for every table and hostname, the wrapped window.fetch of
\* sw-register.js proxies a cross-origin request exactly when the fetch
\* handler of api-proxy-sw.js would, and with the same rule.
C37_SameDecision ==
    (mPc = "matched" /\ variant = "interceptor") =>
        LET rule == find(routingRules, mHost, "api")
        IN  /\ (mResult # NoRule) = shouldRedirect(rule)
            /\ mResult # NoRule => mResult = rule

\* C38: a call of initializeFetchInterceptor whose fetch of the routing rules
\* rejected or whose body did not parse leaves window.fetch and
\* window.apiProxy as they were; setupFetchInterceptor without an
\* authenticated user only creates the login UI; and window.fetch is replaced
\* and window.apiProxy defined only once a call has loaded a table.
C38_InstalledOnlyWithTable ==
    [][ (variant = "interceptor" /\ hPc \in {"start", "page", "restored"}) =>
          /\ \A k \in DOMAIN ret :
                (ret[k].pc = "fetching" /\ ret'[k].pc # "fetching"
                   /\ (~ret'[k].out.net \/ ~ret'[k].out.json)) =>
                    /\ arg'.fetch = arg.fetch
                    /\ arg'.apiProxy = arg.apiProxy
          /\ (hPc = "start" /\ ret' = ret) =>
                /\ arg'.authUI
                /\ arg'.fetch = 0
                /\ ~arg'.apiProxy.present
          /\ (arg'.fetch # 0 \/ arg'.apiProxy.present) =>
                \E k \in DOMAIN ret' :
                    /\ ret'[k].pc = "installed"
                    /\ ret'[k].out.net /\ ret'[k].out.json
      ]_vars

\* initializeFetchInterceptor got a body that does not parse: the native
\* fetch is in place and apiProxy is undefined
C38_Witness ==
    /\ hPc = "page"
    /\ variant = "interceptor"
    /\ Len(ret) = 1
    /\ ret[1].pc = "failed"
    /\ ret[1].out.net /\ ~ret[1].out.json
    /\ arg.fetch = 0
    /\ ~arg.apiProxy.present

\* C39: after apiProxy.restoreOriginalFetch, whatever installations came
\* before it, window.fetch is the browser's own fetch and no hostname is
\* proxied.
C39_RestoreUndoes ==
    (hPc = "restored" /\ variant = "interceptor") =>
        /\ arg.fetch = 0
        /\ \A h \in MatchHosts : ~proxies(arg, arg.fetch, h)

\* the flows that have not ended
FlowsInProgress ==
    {k \in DOMAIN ret : ret[k].kind = "flow" /\ ret[k].pc \in {"running", "redirecting"}}

\* C40 (one flow): never two silent-auth flows at once; a call made while
\* authInProgress is true becomes a waiter and starts no flow.
C40_OneFlow ==
    hPc = "auth" =>
        /\ Cardinality(FlowsInProgress) <= 1
        /\ arg.authInProgress <=> FlowsInProgress # {}

\* C40: at most one silent-auth flow runs at a time, and after every
\* performSilentAuth call authInProgress eventually is false again and every
\* waitForAuth caller eventually resolves.
C40_FlagReleased ==
    /\ [](hPc = "auth" => Cardinality(FlowsInProgress) <= 1)
    /\ (hPc = "auth" /\ arg.authInProgress) ~> (hPc = "auth" /\ ~arg.authInProgress)
    /\ \A k \in 1..MaxAuthCalls :
          (hPc = "auth" /\ k \in DOMAIN ret /\ ret[k].pc = "waiting")
             ~> (hPc = "auth" /\ k \in DOMAIN ret /\ ret[k].pc = "resolved")
====
